---- MODULE Spec2Model ----
(***************************************************************************)
(* State-machine model of the betting core: the wallet ledger              *)
(* (wallet.service.js), the bet book (bet.service.js) and the selection    *)
(* cascade driven by the event service.                                    *)
(*                                                                         *)
(* Money is an integer number of mills (1/1000 of a currency unit), odds   *)
(* are integers in hundredths (2.00 is 200).                               *)
(*                                                                         *)
(* Every handler is an async function of one Node.js event loop: it runs   *)
(* without interruption from one `await` to the next, and other handlers   *)
(* run at each await.  One action of the model is one such run.  Objects   *)
(* read from the in-memory Maps are shared references, so a handler that   *)
(* resumes after an await reads the current fields of the wallet, lock or  *)
(* bet it holds.                                                           *)
(***************************************************************************)
EXTENDS Integers, Sequences, FiniteSets, TLC

VARIABLES
    wallets,             \* this.wallets: userId -> wallet
    locks,               \* this.locks: lock id -> lock (status "none": no such lock)
    transactions,        \* this.transactions: userId -> transactions, newest first
    bets,                \* this.bets: bet id -> bet (status "none": not stored)
    selectionBetsIndex,  \* this.selectionBetsIndex: selectionId -> bet ids
    selections,          \* event service: selectionId -> status
    nextBetId,           \* number of bet ids drawn so far (uuidv4 for bet.id)
    markets,             \* event service: marketId -> status
    settlements,         \* this.settlements: settlement id -> settlement record
    events,              \* event service: eventId -> status
    pendingSettlements,  \* this.pendingSettlements: eventId -> queued settlement
    finishedEvents,      \* the event.finished notifications emitted and not yet handled
    procs                \* the handler invocations in flight

vars == <<wallets, locks, transactions, bets, selectionBetsIndex, selections,
          nextBetId, markets, settlements, events, pendingSettlements,
          finishedEvents, procs>>

----------------------------------------------------------------------------
(* Bounds of the model *)

NumProcs == 2
MaxLocks == 2
MaxTxns == 3
MaxBets == 2
MaxSettlements == 2

(* Settings of the services, in mills *)
minDeposit == 1000
maxDeposit == 50000000
minWithdrawal == 10000
maxWithdrawal == 50000000
minStake == 10
maxStake == 100000000
maxSelections == 20
maxPotentialWin == 500000000

Procs == 1..NumProcs
LockIds == 1..MaxLocks
BetIds == 1..MaxBets
Users == {"u1", "u2"}
SelectionIds == {"s1", "s2", "s3"}
MarketIds == {"m1", "m2"}
SettlementIds == 1..MaxSettlements
EventIds == {"e1"}

NoTxn == [type |-> "none", amount |-> 0, balanceBefore |-> 0, balanceAfter |-> 0,
          referenceId |-> 0]
NoLock == [userId |-> "none", amount |-> 0, referenceId |-> 0, status |-> "none"]
NoBet == [userId |-> "none", betType |-> "none", stake |-> 0, potentialWin |-> 0,
          totalOdds |-> 0, status |-> "none", settledAmount |-> 0,
          cashoutAmount |-> 0, lockId |-> 0, selections |-> <<>>]

NoSettlement == [marketId |-> "none", results |-> <<>>, status |-> "none",
                 processedSelections |-> 0, errors |-> <<>>]

NoPending == [queued |-> FALSE, homeScore |-> 0, awayScore |-> 0, retryCount |-> 0]

IdleProc ==
    [op |-> "idle", pc |-> "idle", res |-> "none",
     handler |-> "none", userId |-> "none", amount |-> 0, lockId |-> 0,
     referenceId |-> 0, referenceType |-> "none", txn |-> NoTxn,
     stake |-> 0, items |-> <<>>, idx |-> 0, combinedOdds |-> 0,
     potentialWin |-> 0, validated |-> <<>>, betId |-> 0, debitErr |-> "none",
     selectionId |-> "none", result |-> "none", queue |-> <<>>,
     settleResult |-> "none", settledAmount |-> 0,
     settlementId |-> 0, marketId |-> "none", retryResults |-> <<>>,
     eventId |-> "none", homeScore |-> 0, awayScore |-> 0, line |-> 0,
     eventMarkets |-> <<>>, pendingRef |-> 0, retryCount |-> 0]

Free(p) == procs[p].pc \in {"idle", "done"}

Max(a, b) == IF a >= b THEN a ELSE b

\* The handler of a top-level call returns or throws: res is "ok" or the error type.
\* What is kept of the invocation is what its caller can tell: the action, the
\* outcome, of a placement the lock it took, the bet id it drew and the error
\* its debit threw, of a market settlement, voiding or retry the settlement
\* and the market it names, and of a retry the retryResults it returns.
Finish(pr, err) ==
    [IdleProc EXCEPT !.op = pr.op, !.pc = "done", !.res = err,
                     !.lockId = IF pr.op \in {"lock", "place", "placeAccumulator"}
                                THEN pr.lockId ELSE 0,
                     !.amount = IF pr.op = "lock" THEN pr.amount ELSE 0,
                     !.betId = pr.betId, !.debitErr = pr.debitErr,
                     !.settlementId = pr.settlementId, !.marketId = pr.marketId,
                     !.retryResults = pr.retryResults]

----------------------------------------------------------------------------
(* Wallet service *)

\* A transaction record whose balanceAfter forgets the amount.
processTransactionFlat(wallet, type, amount, referenceId) ==
    LET balanceBefore == wallet.balance
        balanceAfter == balanceBefore + amount
    IN  IF balanceAfter < 0
        THEN <<"INSUFFICIENT_FUNDS", wallet, NoTxn>>
        ELSE <<"ok", [wallet EXCEPT !.balance = balanceAfter],
               [type |-> type, amount |-> amount, balanceBefore |-> balanceBefore,
                balanceAfter |-> balanceBefore, referenceId |-> referenceId]>>

\* processTransaction up to its first await: the balance check, the transaction
\* record and the balance update.  Gives <<error, wallet, transaction>>.
processTransaction(wallet, type, amount, referenceId) ==
    LET balanceBefore == wallet.balance
        balanceAfter == balanceBefore + amount
    IN  IF balanceAfter < 0
        THEN <<"INSUFFICIENT_FUNDS", wallet, NoTxn>>
        ELSE <<"ok", [wallet EXCEPT !.balance = balanceAfter],
               [type |-> type, amount |-> amount, balanceBefore |-> balanceBefore,
                balanceAfter |-> balanceAfter, referenceId |-> referenceId]>>

\* A save that records the transaction twice.
saveTransactionTwice(txs, userId, txn) ==
    [txs EXCEPT ![userId] = <<txn, txn>> \o @]

\* saveTransaction: unshift on the wallet's list.
saveTransaction(txs, userId, txn) ==
    [txs EXCEPT ![userId] = <<txn>> \o @]

\* What the caller of wallet.lock does when the call returns or throws.  A direct
\* call ends; place and placeAccumulator wrap any error as INSUFFICIENT_FUNDS, and
\* on success build the bet (betId is the uuid drawn for it) and call wallet.debit
\* with the lock id.
RetLock(pr, err, lockId, betId) ==
    IF pr.op = "lock"
    THEN Finish([pr EXCEPT !.lockId = lockId], err)
    ELSE IF err # "ok"
         THEN Finish(pr, "INSUFFICIENT_FUNDS")
         ELSE [pr EXCEPT !.handler = "debit", !.pc = "debit_lock",
                         !.lockId = lockId, !.betId = betId,
                         !.referenceId = betId, !.referenceType = "bet_stake"]

\* The caller of wallet.unlock: place rethrows the debit's error after the unlock
\* returned, and an error thrown by the unlock itself leaves the catch block instead.
RetUnlock(pr, err) ==
    IF pr.op = "unlock"
    THEN Finish(pr, err)
    ELSE IF err # "ok" THEN Finish(pr, err) ELSE Finish(pr, pr.debitErr)

\* The caller of wallet.debit: place calls wallet.unlock when the debit threw,
\* and saves the bet when it returned.
RetDebit(pr, err) ==
    IF pr.op = "debit"
    THEN Finish(pr, err)
    ELSE IF err # "ok"
         THEN [pr EXCEPT !.handler = "unlock", !.pc = "unlock_lock", !.debitErr = err]
         ELSE [pr EXCEPT !.handler = "none", !.pc = "place_save"]

\* The caller of bet.settle: a direct call ends; handleSelectionSettled saves the
\* bet and goes on with the next bet, and an error thrown by bet.settle ends it.
RetSettle(pr, err) ==
    IF pr.op = "settle"
    THEN Finish(pr, err)
    ELSE IF err # "ok"
         THEN Finish(pr, err)
         ELSE IF Tail(pr.queue) = <<>>
         THEN Finish(pr, "ok")
         ELSE [pr EXCEPT !.handler = "none", !.pc = "cascade_bet", !.queue = Tail(@)]

\* The caller of wallet.credit: cashout updates the bet, settle saves the bet and
\* returns.
RetCredit(pr, err) ==
    IF pr.op = "credit"
    THEN Finish(pr, err)
    ELSE IF pr.op = "cashout"
         THEN IF err # "ok" THEN Finish(pr, err)
              ELSE [pr EXCEPT !.handler = "none", !.pc = "cashout_update"]
         ELSE RetSettle(pr, err)

\* The handler that called processTransaction returns.
RetTransaction(pr) ==
    CASE pr.handler = "debit" -> RetDebit(pr, "ok")
      [] pr.handler = "credit" -> RetCredit(pr, "ok")
      [] OTHER -> Finish(pr, "ok")

ActiveTxnProcs ==
    {p \in Procs : procs[p].pc \notin {"idle", "done"}
                   /\ procs[p].op \in {"deposit", "withdraw", "debit", "credit",
                                       "place", "placeAccumulator"}}
ActiveLockProcs ==
    {p \in Procs : procs[p].pc \notin {"idle", "done"}
                   /\ procs[p].op \in {"lock", "place", "placeAccumulator"}
                   /\ procs[p].lockId = 0}
ActiveBetProcs ==
    {p \in Procs : procs[p].pc \notin {"idle", "done"}
                   /\ procs[p].op \in {"place", "placeAccumulator"}
                   /\ procs[p].betId = 0}
NumLocks == Cardinality({l \in LockIds : locks[l].status # "none"})

\* Room for one more transaction, lock or bet within the bounds of the model.
TxnRoom(u) == Len(transactions[u]) + Cardinality(ActiveTxnProcs) < MaxTxns
LockRoom == NumLocks + Cardinality(ActiveLockProcs) < MaxLocks
BetRoom == nextBetId + Cardinality(ActiveBetProcs) < MaxBets

\* The bet, event and settlement services are left as they are.
UnchangedEvents == UNCHANGED <<events, pendingSettlements, finishedEvents>>
UnchangedSettlements == UNCHANGED <<markets, settlements>> /\ UnchangedEvents
UnchangedBets ==
    /\ UNCHANGED <<bets, selectionBetsIndex, selections, nextBetId>>
    /\ UnchangedSettlements

(* create *)
NoWallet == [exists |-> FALSE, balance |-> 0, lockedBalance |-> 0, status |-> "none"]
NewWallet == [exists |-> TRUE, balance |-> 0, lockedBalance |-> 0, status |-> "active"]

\* create.handler up to `await this.getWalletByUserId(...)`: the Map is read
\* when the call is made, the check of `existing` comes after the await.
CallCreate(p, u) ==
    /\ Free(p)
    /\ procs' = [procs EXCEPT ![p] =
          [IdleProc EXCEPT !.op = "create", !.handler = "create", !.userId = u,
                           !.pc = IF wallets[u].exists THEN "create_exists"
                                  ELSE "create_wallet"]]
    /\ UNCHANGED <<wallets, locks, transactions>> /\ UnchangedBets

\* create.handler after the await: WALLET_EXISTS when the read found a wallet,
\* else a new wallet is built and saveWallet sets it under userId:currency.
CreateWallet(p) ==
    LET pr == procs[p]
    IN  /\ pr.pc \in {"create_exists", "create_wallet"}
        /\ IF pr.pc = "create_exists"
           THEN /\ procs' = [procs EXCEPT ![p] = Finish(pr, "WALLET_EXISTS")]
                /\ UNCHANGED wallets
           ELSE /\ wallets' = [wallets EXCEPT ![pr.userId] = NewWallet]
                /\ procs' = [procs EXCEPT ![p] = Finish(pr, "ok")]
        /\ UNCHANGED <<locks, transactions>> /\ UnchangedBets

(* deposit *)
CallDeposit(p, u, a) ==
    /\ Free(p) /\ TxnRoom(u)
    /\ procs' = [procs EXCEPT ![p] =
          LET pr == [IdleProc EXCEPT !.op = "deposit", !.handler = "deposit",
                                     !.userId = u, !.amount = a]
          IN  IF a < minDeposit THEN Finish(pr, "MIN_DEPOSIT")
              ELSE IF a > maxDeposit THEN Finish(pr, "MAX_DEPOSIT")
              ELSE [pr EXCEPT !.pc = "deposit_wallet"]]
    /\ UNCHANGED <<wallets, locks, transactions>> /\ UnchangedBets

DepositWallet(p) ==
    LET pr == procs[p]
        wallet == wallets[pr.userId]
        r == processTransaction(wallet, "deposit", pr.amount, 0)
    IN  /\ pr.pc = "deposit_wallet"
        /\ IF ~wallet.exists
           THEN /\ procs' = [procs EXCEPT ![p] = Finish(pr, "WALLET_NOT_FOUND")]
                /\ UNCHANGED wallets
           ELSE IF wallet.status # "active"
           THEN /\ procs' = [procs EXCEPT ![p] = Finish(pr, "WALLET_INACTIVE")]
                /\ UNCHANGED wallets
           ELSE IF r[1] # "ok"
           THEN /\ procs' = [procs EXCEPT ![p] = Finish(pr, r[1])]
                /\ UNCHANGED wallets
           ELSE /\ wallets' = [wallets EXCEPT ![pr.userId] = r[2]]
                /\ procs' = [procs EXCEPT ![p] =
                                 [pr EXCEPT !.pc = "saveTransaction", !.txn = r[3]]]
        /\ UNCHANGED <<locks, transactions>> /\ UnchangedBets

(* withdraw *)
CallWithdraw(p, u, a) ==
    /\ Free(p) /\ TxnRoom(u)
    /\ procs' = [procs EXCEPT ![p] =
          LET pr == [IdleProc EXCEPT !.op = "withdraw", !.handler = "withdraw",
                                     !.userId = u, !.amount = a]
          IN  IF a < minWithdrawal THEN Finish(pr, "MIN_WITHDRAWAL")
              ELSE IF a > maxWithdrawal THEN Finish(pr, "MAX_WITHDRAWAL")
              ELSE [pr EXCEPT !.pc = "withdraw_wallet"]]
    /\ UNCHANGED <<wallets, locks, transactions>> /\ UnchangedBets

WithdrawWallet(p) ==
    LET pr == procs[p]
        wallet == wallets[pr.userId]
        availableBalance == wallet.balance - wallet.lockedBalance
        r == processTransaction(wallet, "withdrawal", -pr.amount, 0)
    IN  /\ pr.pc = "withdraw_wallet"
        /\ IF ~wallet.exists
           THEN /\ procs' = [procs EXCEPT ![p] = Finish(pr, "WALLET_NOT_FOUND")]
                /\ UNCHANGED wallets
           ELSE IF wallet.status # "active"
           THEN /\ procs' = [procs EXCEPT ![p] = Finish(pr, "WALLET_INACTIVE")]
                /\ UNCHANGED wallets
           ELSE IF pr.amount > availableBalance \/ r[1] # "ok"
           THEN /\ procs' = [procs EXCEPT ![p] = Finish(pr, "INSUFFICIENT_FUNDS")]
                /\ UNCHANGED wallets
           ELSE /\ wallets' = [wallets EXCEPT ![pr.userId] = r[2]]
                /\ procs' = [procs EXCEPT ![p] =
                                 [pr EXCEPT !.pc = "saveTransaction", !.txn = r[3]]]
        /\ UNCHANGED <<locks, transactions>> /\ UnchangedBets

\* processTransaction after `await this.saveWallet(wallet)`: saveTransaction, and
\* the handler's return.
SaveTransaction(p) ==
    LET pr == procs[p]
    IN  /\ pr.pc = "saveTransaction"
        /\ transactions' = saveTransaction(transactions, pr.userId, pr.txn)
        /\ procs' = [procs EXCEPT ![p] = RetTransaction([pr EXCEPT !.txn = NoTxn])]
        /\ UNCHANGED <<wallets, locks>> /\ UnchangedBets

(* lock *)
CallLock(p, u, a) ==
    /\ Free(p) /\ LockRoom
    /\ procs' = [procs EXCEPT ![p] =
          [IdleProc EXCEPT !.op = "lock", !.handler = "lock", !.pc = "lock_wallet",
                           !.userId = u, !.amount = a]]
    /\ UNCHANGED <<wallets, locks, transactions>> /\ UnchangedBets

\* wallet.lock called with a referenceId of the caller's.
CallLockFor(p, u, a, referenceId) ==
    /\ Free(p) /\ LockRoom
    /\ procs' = [procs EXCEPT ![p] =
          [IdleProc EXCEPT !.op = "lock", !.handler = "lock", !.pc = "lock_wallet",
                           !.userId = u, !.amount = a, !.referenceId = referenceId]]
    /\ UNCHANGED <<wallets, locks, transactions>> /\ UnchangedBets

\* The referenceId recorded on lock id: the one of the call, and for a placement,
\* which passes a uuidv4() of its own, a value no other lock has.
LockReference(pr, id) == IF pr.op = "lock" THEN pr.referenceId ELSE -id

\* A lock check that forgets the amounts already locked.
WholeBalance(wallet) == wallet.balance

\* A lock check that refuses a lock of the whole available balance (>= for >).
AvailableBalanceStrict(wallet) == wallet.balance - wallet.lockedBalance - 1

\* const availableBalance = wallet.balance - wallet.lockedBalance
AvailableBalance(wallet) == wallet.balance - wallet.lockedBalance

\* lock.handler after `await this.getWalletByUserId(userId)`: the checks and the
\* increment of lockedBalance, up to `await this.saveWallet(wallet)`.
LockWallet(p) ==
    LET pr == procs[p]
        wallet == wallets[pr.userId]
        availableBalance == AvailableBalance(wallet)
    IN  /\ pr.pc = "lock_wallet"
        /\ IF ~wallet.exists
           THEN /\ procs' = [procs EXCEPT ![p] = RetLock(pr, "WALLET_NOT_FOUND", 0, 0)]
                /\ UNCHANGED wallets
           ELSE IF wallet.status # "active"
           THEN /\ procs' = [procs EXCEPT ![p] = RetLock(pr, "WALLET_INACTIVE", 0, 0)]
                /\ UNCHANGED wallets
           ELSE IF pr.amount > availableBalance
           THEN /\ procs' = [procs EXCEPT ![p] = RetLock(pr, "INSUFFICIENT_FUNDS", 0, 0)]
                /\ UNCHANGED wallets
           ELSE /\ wallets' = [wallets EXCEPT ![pr.userId].lockedBalance = @ + pr.amount]
                /\ procs' = [procs EXCEPT ![p] = [pr EXCEPT !.pc = "lock_save"]]
        /\ UNCHANGED <<locks, transactions>> /\ UnchangedBets

\* lock.handler after `await this.saveWallet(wallet)`: the lock is recorded, and
\* the handler returns.
LockSave(p) ==
    LET pr == procs[p]
        id == NumLocks + 1
        placing == pr.op # "lock"
    IN  /\ pr.pc = "lock_save"
        /\ id \in LockIds
        /\ locks' = [locks EXCEPT ![id] =
                        [userId |-> pr.userId, amount |-> pr.amount,
                         referenceId |-> LockReference(pr, id), status |-> "active"]]
        /\ nextBetId' = IF placing THEN nextBetId + 1 ELSE nextBetId
        /\ procs' = [procs EXCEPT ![p] = RetLock(pr, "ok", id, nextBetId + 1)]
        /\ UNCHANGED <<wallets, transactions, bets, selectionBetsIndex, selections>>
        /\ UnchangedSettlements

(* unlock *)
CallUnlock(p, l) ==
    /\ Free(p)
    /\ procs' = [procs EXCEPT ![p] =
          [IdleProc EXCEPT !.op = "unlock", !.handler = "unlock", !.pc = "unlock_lock",
                           !.lockId = l]]
    /\ UNCHANGED <<wallets, locks, transactions>> /\ UnchangedBets

\* unlock.handler after `await this.getLockById(lockId)`: the checks of the lock.
UnlockLock(p) ==
    LET pr == procs[p]
        lock == locks[pr.lockId]
    IN  /\ pr.pc = "unlock_lock"
        /\ procs' = [procs EXCEPT ![p] =
              IF lock.status = "none" THEN RetUnlock(pr, "LOCK_NOT_FOUND")
              ELSE IF lock.status # "active" THEN RetUnlock(pr, "LOCK_INACTIVE")
              ELSE [pr EXCEPT !.pc = "unlock_wallet"]]
        /\ UNCHANGED <<wallets, locks, transactions>> /\ UnchangedBets

\* unlock.handler after `await this.getWalletByUserId(lock.userId)`: lockedBalance
\* is decremented, up to `await this.saveWallet(wallet)`.
UnlockWallet(p) ==
    LET pr == procs[p]
        lock == locks[pr.lockId]
        wallet == wallets[lock.userId]
    IN  /\ pr.pc = "unlock_wallet"
        /\ IF ~wallet.exists
           THEN /\ procs' = [procs EXCEPT ![p] = RetUnlock(pr, "WALLET_NOT_FOUND")]
                /\ UNCHANGED wallets
           ELSE /\ wallets' = [wallets EXCEPT ![lock.userId].lockedBalance =
                                   Max(0, @ - lock.amount)]
                /\ procs' = [procs EXCEPT ![p] = [pr EXCEPT !.pc = "unlock_save"]]
        /\ UNCHANGED <<locks, transactions>> /\ UnchangedBets

\* unlock.handler after `await this.saveWallet(wallet)`: the lock is released.
UnlockSave(p) ==
    LET pr == procs[p]
    IN  /\ pr.pc = "unlock_save"
        /\ locks' = [locks EXCEPT ![pr.lockId].status = "released"]
        /\ procs' = [procs EXCEPT ![p] = RetUnlock(pr, "ok")]
        /\ UNCHANGED <<wallets, transactions>> /\ UnchangedBets

(* debit *)
CallDebit(p, u, a, l) ==
    /\ Free(p) /\ TxnRoom(u)
    /\ procs' = [procs EXCEPT ![p] =
          [IdleProc EXCEPT !.op = "debit", !.handler = "debit", !.pc = "debit_wallet",
                           !.userId = u, !.amount = a, !.lockId = l,
                           !.referenceType = "bet_stake"]]
    /\ UNCHANGED <<wallets, locks, transactions>> /\ UnchangedBets

\* debit.handler from `// Check balance` to the await inside processTransaction.
\* Gives <<process, wallet>>.
DebitBalance(pr, wallet) ==
    LET r == processTransaction(wallet, pr.referenceType, -pr.amount, pr.referenceId)
    IN  IF pr.amount > wallet.balance
        THEN <<RetDebit(pr, "INSUFFICIENT_FUNDS"), wallet>>
        ELSE IF r[1] # "ok"
        THEN <<RetDebit(pr, r[1]), wallet>>
        ELSE <<[pr EXCEPT !.pc = "saveTransaction", !.txn = r[3]], r[2]>>

\* A debit that converts the lock and leaves its amount in lockedBalance.
KeepForDebit(wallet, lock) == wallet

\* The wallet after debit.handler released an active lock (line 389).
ReleaseForDebit(wallet, lock) ==
    [wallet EXCEPT !.lockedBalance = Max(0, @ - lock.amount)]

\* debit.handler after `await this.getWalletByUserId(userId)`: without a lockId
\* it goes on to the balance check, with one it awaits getLockById.
DebitWallet(p) ==
    LET pr == procs[p]
        wallet == wallets[pr.userId]
        r == DebitBalance(pr, wallet)
    IN  /\ pr.pc = "debit_wallet"
        /\ IF ~wallet.exists
           THEN /\ procs' = [procs EXCEPT ![p] = RetDebit(pr, "WALLET_NOT_FOUND")]
                /\ UNCHANGED wallets
           ELSE IF pr.lockId # 0
           THEN /\ procs' = [procs EXCEPT ![p] = [pr EXCEPT !.pc = "debit_lock"]]
                /\ UNCHANGED wallets
           ELSE /\ procs' = [procs EXCEPT ![p] = r[1]]
                /\ wallets' = [wallets EXCEPT ![pr.userId] = r[2]]
        /\ UNCHANGED <<locks, transactions>> /\ UnchangedBets

\* debit.handler after `await this.getLockById(lockId)`: an active lock is released
\* and converted, up to `await this.saveLock(lock)`; with no active lock the handler
\* goes on to the balance check.
DebitLock(p) ==
    LET pr == procs[p]
        wallet == wallets[pr.userId]
        lock == locks[pr.lockId]
        r == DebitBalance(pr, wallet)
    IN  /\ pr.pc = "debit_lock"
        /\ IF ~wallet.exists
           THEN /\ procs' = [procs EXCEPT ![p] = RetDebit(pr, "WALLET_NOT_FOUND")]
                /\ UNCHANGED <<wallets, locks>>
           ELSE IF lock.status = "active"
           THEN /\ wallets' = [wallets EXCEPT ![pr.userId] = ReleaseForDebit(wallet, lock)]
                /\ locks' = [locks EXCEPT ![pr.lockId].status = "converted"]
                /\ procs' = [procs EXCEPT ![p] = [pr EXCEPT !.pc = "debit_balance"]]
           ELSE /\ procs' = [procs EXCEPT ![p] = r[1]]
                /\ wallets' = [wallets EXCEPT ![pr.userId] = r[2]]
                /\ UNCHANGED locks
        /\ UNCHANGED transactions /\ UnchangedBets

\* debit.handler after `await this.saveLock(lock)`: the balance check and the debit.
DebitCheck(p) ==
    LET pr == procs[p]
        r == DebitBalance(pr, wallets[pr.userId])
    IN  /\ pr.pc = "debit_balance"
        /\ procs' = [procs EXCEPT ![p] = r[1]]
        /\ wallets' = [wallets EXCEPT ![pr.userId] = r[2]]
        /\ UNCHANGED <<locks, transactions>> /\ UnchangedBets

(* credit *)
CallCredit(p, u, a, ref, type) ==
    /\ Free(p) /\ TxnRoom(u)
    /\ procs' = [procs EXCEPT ![p] =
          [IdleProc EXCEPT !.op = "credit", !.handler = "credit", !.pc = "credit_wallet",
                           !.userId = u, !.amount = a, !.referenceId = ref,
                           !.referenceType = type]]
    /\ UNCHANGED <<wallets, locks, transactions>> /\ UnchangedBets

\* credit.handler after `await this.getWalletByUserId(userId)`.
CreditWallet(p) ==
    LET pr == procs[p]
        wallet == wallets[pr.userId]
        r == processTransaction(wallet, pr.referenceType, pr.amount, pr.referenceId)
    IN  /\ pr.pc = "credit_wallet"
        /\ IF ~wallet.exists
           THEN /\ procs' = [procs EXCEPT ![p] = RetCredit(pr, "WALLET_NOT_FOUND")]
                /\ UNCHANGED wallets
           ELSE IF r[1] # "ok"
           THEN /\ procs' = [procs EXCEPT ![p] = RetCredit(pr, r[1])]
                /\ UNCHANGED wallets
           ELSE /\ wallets' = [wallets EXCEPT ![pr.userId] = r[2]]
                /\ procs' = [procs EXCEPT ![p] =
                                 [pr EXCEPT !.pc = "saveTransaction", !.txn = r[3]]]
        /\ UNCHANGED <<locks, transactions>> /\ UnchangedBets

\* wallet.credit called through the broker by the bet service, and the broker
\* fails the call before the handler runs (request timeout, open circuit
\* breaker, full bulkhead queue): the caller gets the error.
CreditRejected(p) ==
    LET pr == procs[p]
    IN  /\ pr.pc = "credit_wallet" /\ pr.op # "credit"
        /\ procs' = [procs EXCEPT ![p] = RetCredit(pr, "REQUEST_REJECTED")]
        /\ UNCHANGED <<wallets, locks, transactions>> /\ UnchangedBets

----------------------------------------------------------------------------
(* Odds service *)

\* this.oddsStore: the quotes do not move in this model.  s4 is suspended, s5
\* is quoted 5% above 2.00.
oddsStore ==
    [s \in SelectionIds \cup {"s4", "s5"} |->
        CASE s = "s1" -> [odds |-> 200, status |-> "active"]
          [] s = "s2" -> [odds |-> 150, status |-> "active"]
          [] s = "s4" -> [odds |-> 200, status |-> "suspended"]
          [] s = "s5" -> [odds |-> 210, status |-> "active"]
          [] OTHER -> [odds |-> 600, status |-> "active"]]

Abs(x) == IF x < 0 THEN -x ELSE x

\* Binary64 arithmetic, for the comparison of validateOdds.  A natural number
\* is a little-endian sequence of limbs in base 2^15 (the product of two limbs
\* fits a 32-bit integer); a double x is held as the natural x * 2^Scale, which
\* is exact for the doubles from 2^-27 up that 13 limbs can hold.
LimbBits == 30 \div 2
Base == 2^LimbBits
\* The significand: 52 stored bits and the implicit one.
Precision == 52 + 1
Scale == Precision + 27
BigZero == [i \in 1..13 |-> 0]

\* The natural n < 2^31 in limbs.
Big(n) == [i \in 1..13 |-> IF i = 1 THEN n % Base
                          ELSE IF i = 2 THEN (n \div Base) % Base
                          ELSE IF i = 3 THEN n \div (Base * Base) ELSE 0]

\* a + b + carry
RECURSIVE AddFrom(_, _, _, _)
AddFrom(a, b, i, carry) ==
    IF i > Len(a) THEN <<>>
    ELSE LET t == a[i] + b[i] + carry
         IN  <<t % Base>> \o AddFrom(a, b, i + 1, t \div Base)

\* a - b - borrow, for a >= b + borrow
RECURSIVE SubFrom(_, _, _, _)
SubFrom(a, b, i, borrow) ==
    IF i > Len(a) THEN <<>>
    ELSE LET t == a[i] - b[i] - borrow
         IN  IF t < 0 THEN <<t + Base>> \o SubFrom(a, b, i + 1, 1)
             ELSE <<t>> \o SubFrom(a, b, i + 1, 0)

\* a < b on the limbs 1..i
RECURSIVE LessFrom(_, _, _)
LessFrom(a, b, i) ==
    IF i = 0 THEN FALSE
    ELSE IF a[i] # b[i] THEN a[i] < b[i] ELSE LessFrom(a, b, i - 1)

BigLess(a, b) == LessFrom(a, b, Len(a))
\* 2 * a + bit
Twice(a, bit) ==
    [i \in 1..Len(a) |->
        ((2 * a[i]) % Base) + (IF i = 1 THEN bit ELSE a[i - 1] \div (Base \div 2))]
Half(a) == [i \in 1..Len(a) |->
               a[i] \div 2 + (IF i < Len(a) THEN (a[i + 1] % 2) * (Base \div 2) ELSE 0)]
BitAt(a, k) == (a[(k \div LimbBits) + 1] \div 2^(k % LimbBits)) % 2

\* The limb of a at position i, 0 beyond its length.
Limb(a, i) == IF i \in 1..Len(a) THEN a[i] ELSE 0

\* The number of bits of a: 0 for 0.
BitLen(a) ==
    LET used == {i \in 1..Len(a) : a[i] # 0}
    IN  IF used = {} THEN 0
        ELSE LET top == CHOOSE i \in used : \A j \in used : j <= i
             IN  LimbBits * (top - 1)
                   + (CHOOSE b \in 1..LimbBits : 2^(b - 1) <= a[top] /\ a[top] < 2^b)

\* a * m + carry, for m a limb
RECURSIVE MulFrom(_, _, _, _)
MulFrom(a, m, i, carry) ==
    IF i > Len(a) THEN <<>>
    ELSE LET t == a[i] * m + carry
         IN  <<t % Base>> \o MulFrom(a, m, i + 1, t \div Base)

\* a * 2^s
Shl(a, s) ==
    LET limbs == s \div LimbBits
    IN  MulFrom([i \in 1..Len(a) |-> Limb(a, i - limbs)], 2^(s % LimbBits), 1, 0)

\* floor(a / 2^s)
Shr(a, s) ==
    LET limbs == s \div LimbBits
        bits == s % LimbBits
    IN  [i \in 1..Len(a) |->
            Limb(a, i + limbs) \div 2^bits
              + (Limb(a, i + limbs + 1) % 2^bits) * 2^(LimbBits - bits)]

\* The value of an expression, computed once.
Only(S) == CHOOSE x \in S : TRUE

\* One step of the long division of n by d: bit k of n is brought down.
DivStep(n, d, k, st) ==
    LET r2 == Twice(st.r, BitAt(n, k))
    IN  IF BigLess(r2, d) THEN [q |-> Twice(st.q, 0), r |-> r2]
        ELSE [q |-> Twice(st.q, 1), r |-> SubFrom(r2, d, 1, 0)]

\* The steps for the bits hi down to lo of n.
RECURSIVE DivSteps(_, _, _, _, _)
DivSteps(n, d, hi, lo, st) ==
    IF hi = lo THEN DivStep(n, d, hi, st)
    ELSE LET mid == (hi + lo + 1) \div 2
         IN  Only({DivSteps(n, d, mid - 1, lo, s) : s \in {DivSteps(n, d, hi, mid, st)}})

\* floor(n / d) and whether the division left a remainder, for n >= d > 0.  The
\* leading bits of n that make less than d are brought down at once.
BigDiv(n, d) ==
    LET k == BitLen(n) - BitLen(d) + 1
    IN  Only({[quot |-> st.q, inexact |-> st.r # BigZero] :
                 st \in {DivSteps(n, d, k - 1, 0, [q |-> BigZero, r |-> Shr(n, k)])}})

\* floor(a / m) from limb i down, for a limb m, and whether a remainder is left.
RECURSIVE DivSmallFrom(_, _, _, _)
DivSmallFrom(a, m, i, rem) ==
    IF i = 0 THEN [quot |-> <<>>, inexact |-> rem # 0]
    ELSE LET t == rem * Base + a[i]
             rest == DivSmallFrom(a, m, i - 1, t % m)
         IN  [quot |-> Append(rest.quot, t \div m), inexact |-> rest.inexact]

\* q, and what lies below it when inexact, rounded to 53 significant bits,
\* ties to even.
RoundNearestEven(q, inexact) ==
    LET shift == BitLen(q) - Precision
    IN  IF shift <= 0 THEN q
        ELSE LET top == Shr(q, shift)
                 guard == BitAt(q, shift - 1) = 1
                 sticky == inexact \/ Shl(Shr(q, shift - 1), shift - 1) # q
                 up == guard /\ (sticky \/ top[1] % 2 = 1)
             IN  Shl(AddFrom(top, BigZero, 1, IF up THEN 1 ELSE 0), shift)

\* n / d in binary64, for n and d held at the scale.
Quotient(n, d) ==
    IF n = BigZero THEN BigZero
    ELSE Only({RoundNearestEven(r.quot, r.inexact) :
                  r \in {BigDiv(m, d) : m \in {Shl(n, Scale)}}})

\* The double nearest to a number of hundredths.
Double(hundredths) ==
    Only({RoundNearestEven(r.quot, r.inexact) :
             r \in {DivSmallFrom(n, 100, Len(n), 0) : n \in {Shl(Big(hundredths), Scale)}}})

\* Math.abs(a - b) in binary64.
AbsDifference(a, b) ==
    Only({RoundNearestEven(d, FALSE) :
             d \in {IF BigLess(a, b) THEN SubFrom(b, a, 1, 0) ELSE SubFrom(a, b, 1, 0)}})

\* Math.abs(currentOdds - expectedOdds) / expectedOdds > tolerance in binary64,
\* for odds and a tolerance in hundredths.
DifferenceExceeds(currentOdds, expectedOdds, tolerance) ==
    \E c \in {Double(currentOdds)}, e \in {Double(expectedOdds)}, t \in {Double(tolerance)} :
        \E difference \in {AbsDifference(c, e)} :
            \E quotient \in {Quotient(difference, e)} : BigLess(t, quotient)

\* oddsTolerance: 0.05, in hundredths.
oddsTolerance == 5

\* difference > tolerance for two-decimal odds.  Unless the odds are exactly the
\* tolerance apart their quotient is at least 1 / (100 * expectedOdds) away
\* from it, far more than the three roundings can move it (2^-36 of it), so the
\* comparison is the exact one; the tie is computed in binary64.
OddsMoved(currentOdds, expectedOdds) ==
    LET excess == Abs(currentOdds - expectedOdds) * 100 - oddsTolerance * expectedOdds
    IN  IF excess # 0 THEN excess > 0
        ELSE DifferenceExceeds(currentOdds, expectedOdds, oddsTolerance)

\* A validateOdds that compares in exact decimals.
validateOddsExact(selectionId, expectedOdds) ==
    LET oddsData == oddsStore[selectionId]
    IN  IF selectionId \notin DOMAIN oddsStore
        THEN [valid |-> FALSE, currentOdds |-> 0, reason |-> "Selection not found"]
        ELSE IF oddsData.status # "active"
        THEN [valid |-> FALSE, currentOdds |-> 0, reason |-> "Odds are suspended"]
        ELSE IF Abs(oddsData.odds - expectedOdds) * 100 > oddsTolerance * expectedOdds
        THEN [valid |-> FALSE, currentOdds |-> oddsData.odds,
              reason |-> "Odds have changed"]
        ELSE [valid |-> TRUE, currentOdds |-> oddsData.odds, reason |-> "none"]

\* validateOdds with the tolerance of the bet service.
validateOdds(selectionId, expectedOdds) ==
    LET oddsData == oddsStore[selectionId]
    IN  IF selectionId \notin DOMAIN oddsStore
        THEN [valid |-> FALSE, currentOdds |-> 0, reason |-> "Selection not found"]
        ELSE IF oddsData.status # "active"
        THEN [valid |-> FALSE, currentOdds |-> 0, reason |-> "Odds are suspended"]
        ELSE IF OddsMoved(oddsData.odds, expectedOdds)
        THEN [valid |-> FALSE, currentOdds |-> oddsData.odds,
              reason |-> "Odds have changed"]
        ELSE [valid |-> TRUE, currentOdds |-> oddsData.odds, reason |-> "none"]

\* odds.validate: the handler returns what validateOdds gives, without an await.
\* The call is kept with its parameters, its outcome (the reason when invalid)
\* and the currentOdds returned.
CallValidate(p, selectionId, expectedOdds) ==
    LET oddsValidation == validateOdds(selectionId, expectedOdds)
    IN  /\ Free(p)
        /\ procs' = [procs EXCEPT ![p] =
              [IdleProc EXCEPT
                 !.op = "validate", !.pc = "done",
                 !.res = IF oddsValidation.valid THEN "ok" ELSE oddsValidation.reason,
                 !.items = <<[eventId |-> "none", selectionId |-> selectionId,
                              odds |-> expectedOdds]>>,
                 !.combinedOdds = oddsValidation.currentOdds]]
        /\ UNCHANGED <<wallets, locks, transactions>> /\ UnchangedBets

----------------------------------------------------------------------------
(* Bet service: placement *)

\* n / d rounded half up, as Math.round does for n >= 0.
RoundDiv(n, d) == (2 * n + d) \div (2 * d)

\* stake * odds for odds in hundredths, in mills.
MulOdds(stake, odds) == (stake \div 100) * odds + ((stake % 100) * odds) \div 100

\* 100 ^ k
Pow100(k) == IF k = 0 THEN 1 ELSE IF k = 1 THEN 100 ELSE IF k = 2 THEN 10000 ELSE 1000000

\* Math.round(combinedOdds * 100) / 100 for the product of k odds, in hundredths.
RoundOdds(product, k) == RoundDiv(product, Pow100(k - 1))

\* Math.round(stake * combinedOdds * 100) / 100, in mills.
RoundWin(stake, odds) ==
    10 * ((stake \div 1000) * odds + RoundDiv((stake % 1000) * odds, 1000))

\* validateStake
validateStake(stake) ==
    IF stake < minStake THEN "MIN_STAKE"
    ELSE IF stake > maxStake THEN "MAX_STAKE"
    ELSE "ok"

\* place and placeAccumulator call wallet.lock for the stake.
CallWalletLock(pr) ==
    [pr EXCEPT !.handler = "lock", !.pc = "lock_wallet", !.amount = pr.stake]

CallPlace(p, u, item, stake) ==
    /\ Free(p) /\ TxnRoom(u) /\ LockRoom /\ BetRoom
    /\ procs' = [procs EXCEPT ![p] =
          LET pr == [IdleProc EXCEPT !.op = "place", !.userId = u, !.stake = stake,
                                     !.items = <<item>>]
          IN  IF validateStake(stake) # "ok" THEN Finish(pr, validateStake(stake))
              ELSE [pr EXCEPT !.pc = "place_odds"]]
    /\ UNCHANGED <<wallets, locks, transactions>> /\ UnchangedBets

\* A place.handler that reserves the stake before it checks the odds and the
\* potential win.
PlaceOddsLockFirst(p) ==
    LET pr == procs[p]
        item == pr.items[1]
        oddsValidation == validateOdds(item.selectionId, item.odds)
        currentOdds == oddsValidation.currentOdds
        potentialWin == MulOdds(pr.stake, currentOdds)
    IN  /\ pr.pc = "place_odds"
        /\ wallets' = [wallets EXCEPT ![pr.userId].lockedBalance = @ + pr.stake]
        /\ procs' = [procs EXCEPT ![p] =
              IF ~oddsValidation.valid THEN Finish(pr, "ODDS_CHANGED")
              ELSE IF potentialWin > maxPotentialWin
              THEN Finish(pr, "MAX_POTENTIAL_WIN_EXCEEDED")
              ELSE [pr EXCEPT !.handler = "lock", !.pc = "lock_save",
                              !.amount = pr.stake, !.potentialWin = potentialWin,
                              !.combinedOdds = currentOdds,
                              !.validated = <<currentOdds>>]]
        /\ UNCHANGED <<locks, transactions>> /\ UnchangedBets

\* place.handler after `await ctx.call("odds.validate")`, up to the call of
\* wallet.lock.
PlaceOdds(p) ==
    LET pr == procs[p]
        item == pr.items[1]
        oddsValidation == validateOdds(item.selectionId, item.odds)
        currentOdds == oddsValidation.currentOdds
        potentialWin == MulOdds(pr.stake, currentOdds)
    IN  /\ pr.pc = "place_odds"
        /\ procs' = [procs EXCEPT ![p] =
              IF ~oddsValidation.valid THEN Finish(pr, "ODDS_CHANGED")
              ELSE IF potentialWin > maxPotentialWin
              THEN Finish(pr, "MAX_POTENTIAL_WIN_EXCEEDED")
              ELSE CallWalletLock([pr EXCEPT !.potentialWin = potentialWin,
                                             !.combinedOdds = currentOdds,
                                             !.validated = <<currentOdds>>])]
        /\ UNCHANGED <<wallets, locks, transactions>> /\ UnchangedBets

HasDuplicateEvent(items) ==
    \E i, j \in 1..Len(items) : i # j /\ items[i].eventId = items[j].eventId

CallPlaceAccumulator(p, u, items, stake) ==
    /\ Free(p) /\ TxnRoom(u) /\ LockRoom /\ BetRoom
    /\ procs' = [procs EXCEPT ![p] =
          LET pr == [IdleProc EXCEPT !.op = "placeAccumulator", !.userId = u,
                                     !.stake = stake, !.items = items]
          IN  IF Len(items) > maxSelections THEN Finish(pr, "MAX_SELECTIONS_EXCEEDED")
              ELSE IF HasDuplicateEvent(items) THEN Finish(pr, "DUPLICATE_EVENT")
              ELSE IF validateStake(stake) # "ok" THEN Finish(pr, validateStake(stake))
              ELSE [pr EXCEPT !.pc = "acc_odds", !.idx = 1, !.combinedOdds = 1]]
    /\ UNCHANGED <<wallets, locks, transactions>> /\ UnchangedBets

\* placeAccumulator.handler after one `await ctx.call("odds.validate")` of its
\* loop; after the last one, up to the call of wallet.lock.  Inside the loop
\* combinedOdds holds the product of the odds validated so far, unrounded.
AccOdds(p) ==
    LET pr == procs[p]
        item == pr.items[pr.idx]
        oddsValidation == validateOdds(item.selectionId, item.odds)
        product == pr.combinedOdds * oddsValidation.currentOdds
        combinedOdds == RoundOdds(product, pr.idx)
        potentialWin == RoundWin(pr.stake, combinedOdds)
        validated == Append(pr.validated, oddsValidation.currentOdds)
    IN  /\ pr.pc = "acc_odds"
        /\ procs' = [procs EXCEPT ![p] =
              IF ~oddsValidation.valid THEN Finish(pr, "ODDS_CHANGED")
              ELSE IF pr.idx < Len(pr.items)
              THEN [pr EXCEPT !.idx = @ + 1, !.combinedOdds = product,
                              !.validated = validated]
              ELSE IF potentialWin > maxPotentialWin
              THEN Finish(pr, "MAX_POTENTIAL_WIN_EXCEEDED")
              ELSE CallWalletLock([pr EXCEPT !.potentialWin = potentialWin,
                                             !.combinedOdds = combinedOdds,
                                             !.validated = validated])]
        /\ UNCHANGED <<wallets, locks, transactions>> /\ UnchangedBets

\* The bet object built by place / placeAccumulator.
NewBet(pr) ==
    [userId |-> pr.userId,
     betType |-> IF pr.op = "place" THEN "single" ELSE "accumulator",
     stake |-> pr.stake, potentialWin |-> pr.potentialWin,
     totalOdds |-> pr.combinedOdds, status |-> "open", settledAmount |-> 0,
     cashoutAmount |-> 0, lockId |-> pr.lockId,
     selections |-> [i \in 1..Len(pr.items) |->
                        [eventId |-> pr.items[i].eventId,
                         selectionId |-> pr.items[i].selectionId,
                         oddsAtPlacement |-> pr.validated[i],
                         status |-> "pending"]]]

\* saveBet's index by selection: the bet id is pushed on the list of each of the
\* bet's selections that does not include it yet.
IndexBet(index, id, bet) ==
    [s \in SelectionIds |->
        IF (\E i \in 1..Len(bet.selections) : bet.selections[i].selectionId = s)
           /\ (\A k \in 1..Len(index[s]) : index[s][k] # id)
        THEN Append(index[s], id)
        ELSE index[s]]

\* place / placeAccumulator after wallet.debit returned: saveBet, and the return.
PlaceSave(p) ==
    LET pr == procs[p]
        bet == NewBet(pr)
    IN  /\ pr.pc = "place_save"
        /\ bets' = [bets EXCEPT ![pr.betId] = bet]
        /\ selectionBetsIndex' = IndexBet(selectionBetsIndex, pr.betId, bet)
        /\ procs' = [procs EXCEPT ![p] = Finish(pr, "ok")]
        /\ UNCHANGED <<wallets, locks, transactions, selections, nextBetId>>
        /\ UnchangedSettlements

----------------------------------------------------------------------------
(* Bet service: settlement and cash-out *)

\* The number of a bet's selections whose status is in S.
CountStatus(bet, S) ==
    Cardinality({i \in 1..Len(bet.selections) : bet.selections[i].status \in S})

\* stake times the oddsAtPlacement of the selections whose status is in S
\* (a reduce over the filtered selections, starting from the stake).
RECURSIVE StakeTimesOdds(_, _, _, _)
StakeTimesOdds(acc, sels, i, S) ==
    IF i > Len(sels) THEN acc
    ELSE StakeTimesOdds(IF sels[i].status \in S
                        THEN MulOdds(acc, sels[i].oddsAtPlacement) ELSE acc,
                        sels, i + 1, S)

SelectionStatuses == {"pending", "won", "lost", "void", "push", "winner", "loser"}

\* calculateCashoutValue
calculateCashoutValue(bet) ==
    LET pending == CountStatus(bet, {"pending"})
        lost == CountStatus(bet, {"lost"})
        progressValue == StakeTimesOdds(bet.stake, bet.selections, 1, {"won"})
    IN  IF bet.status # "open" THEN 0
        ELSE IF lost > 0 THEN 0
        ELSE IF pending = 0 THEN 0
        ELSE 10 * RoundDiv(progressValue * 9, 100)

\* A call of wallet.credit from the bet service.  The action's parameter schema
\* wants a positive amount; the call throws without running the handler otherwise.
CallWalletCredit(pr, userId, amount, referenceId, referenceType) ==
    IF amount <= 0
    THEN RetCredit(pr, "VALIDATION_ERROR")
    ELSE [pr EXCEPT !.handler = "credit", !.pc = "credit_wallet", !.userId = userId,
                    !.amount = amount, !.referenceId = referenceId,
                    !.referenceType = referenceType]

UnchangedWallets == UNCHANGED <<wallets, locks, transactions>>

(* settle *)
CallSettle(p, b, result, settledAmount) ==
    /\ Free(p)
    /\ procs' = [procs EXCEPT ![p] =
          [IdleProc EXCEPT !.op = "settle", !.handler = "settle", !.pc = "settle_bet",
                           !.betId = b, !.settleResult = result,
                           !.settledAmount = settledAmount]]
    /\ UnchangedWallets /\ UnchangedBets

\* The optional parameter settledAmount left out of the call (undefined).
NoSettledAmount == 0 - 1

\* `settledAmount || bet.potentialWin` (line 589): undefined and 0 are falsy.
SettledOrPotentialWin(bet, settledAmount) ==
    IF settledAmount \in {NoSettledAmount, 0} THEN bet.potentialWin ELSE settledAmount

\* A settle.handler that leaves the status for after the credit.
SettledBetLate(bet, result, settledAmount) ==
    [bet EXCEPT !.settledAmount =
                    IF result = "won"
                    THEN SettledOrPotentialWin(bet, settledAmount)
                    ELSE IF result = "void" THEN bet.stake ELSE 0]

\* The bet as settle.handler writes it before it credits (lines 585-610).
SettledBet(bet, result, settledAmount) ==
    [bet EXCEPT !.status = IF result = "won" THEN "won"
                           ELSE IF result = "lost" THEN "lost" ELSE "void",
                !.settledAmount =
                    IF result = "won"
                    THEN SettledOrPotentialWin(bet, settledAmount)
                    ELSE IF result = "void" THEN bet.stake ELSE 0]

\* settle.handler after `await this.getBetById(betId)`: the guard on the status,
\* the update of the bet, and the call of wallet.credit for a won or void bet.
SettleBet(p) ==
    LET pr == procs[p]
        bet == bets[pr.betId]
        settled == SettledBet(bet, pr.settleResult, pr.settledAmount)
    IN  /\ pr.pc = "settle_bet"
        /\ IF bet.status = "none"
           THEN /\ procs' = [procs EXCEPT ![p] = RetSettle(pr, "BET_NOT_FOUND")]
                /\ UNCHANGED bets
           ELSE IF bet.status # "open"
           THEN /\ procs' = [procs EXCEPT ![p] = RetSettle(pr, "BET_ALREADY_SETTLED")]
                /\ UNCHANGED bets
           ELSE /\ bets' = [bets EXCEPT ![pr.betId] = settled]
                /\ procs' = [procs EXCEPT ![p] =
                      IF pr.settleResult = "won"
                      THEN CallWalletCredit(pr, bet.userId, settled.settledAmount,
                                            pr.betId, "bet_win")
                      ELSE IF pr.settleResult = "void"
                      THEN CallWalletCredit(pr, bet.userId, bet.stake,
                                            pr.betId, "bet_refund")
                      ELSE RetSettle(pr, "ok")]
        /\ UnchangedWallets /\ UNCHANGED <<selectionBetsIndex, selections, nextBetId>>
        /\ UnchangedSettlements

(* cashout *)
CallCashout(p, u, b) ==
    /\ Free(p)
    /\ procs' = [procs EXCEPT ![p] =
          [IdleProc EXCEPT !.op = "cashout", !.handler = "cashout", !.pc = "cashout_bet",
                           !.userId = u, !.betId = b]]
    /\ UnchangedWallets /\ UnchangedBets

\* cashout.handler after `await this.getBetById(id)`: the checks, the value, and
\* the call of wallet.credit.
CashoutBet(p) ==
    LET pr == procs[p]
        bet == bets[pr.betId]
        cashoutValue == calculateCashoutValue(bet)
    IN  /\ pr.pc = "cashout_bet"
        /\ procs' = [procs EXCEPT ![p] =
              IF bet.status = "none" THEN Finish(pr, "BET_NOT_FOUND")
              ELSE IF bet.userId # pr.userId THEN Finish(pr, "ACCESS_DENIED")
              ELSE IF bet.status # "open" THEN Finish(pr, "CASHOUT_NOT_AVAILABLE")
              ELSE IF cashoutValue <= 0 THEN Finish(pr, "CASHOUT_NOT_AVAILABLE")
              ELSE CallWalletCredit([pr EXCEPT !.settledAmount = cashoutValue],
                                    pr.userId, cashoutValue, pr.betId, "bet_win")]
        /\ UnchangedWallets /\ UnchangedBets

\* cashout.handler after wallet.credit returned: the bet is marked cashed_out.
CashoutUpdate(p) ==
    LET pr == procs[p]
    IN  /\ pr.pc = "cashout_update"
        /\ bets' = [bets EXCEPT ![pr.betId].status = "cashed_out",
                                ![pr.betId].cashoutAmount = pr.settledAmount]
        /\ procs' = [procs EXCEPT ![p] = Finish(pr, "ok")]
        /\ UnchangedWallets /\ UNCHANGED <<selectionBetsIndex, selections, nextBetId>>
        /\ UnchangedSettlements

(* selection.settled *)

\* getBetsBySelection(selectionId, "open")
RECURSIVE FilterOpen(_, _)
FilterOpen(ids, i) ==
    IF i > Len(ids) THEN <<>>
    ELSE (IF bets[ids[i]].status = "open" THEN <<ids[i]>> ELSE <<>>)
         \o FilterOpen(ids, i + 1)
getBetsBySelection(selectionId) == FilterOpen(selectionBetsIndex[selectionId], 1)

\* handleSelectionSettled goes on with the next bet of its list, or returns.
NextBet(pr) ==
    IF pr.queue = <<>> THEN Finish(pr, "ok") ELSE [pr EXCEPT !.pc = "cascade_bet"]

\* event.settleSelection writes the selection's result and emits
\* selection.settled; the bet service's handler calls handleSelectionSettled,
\* which reads the open bets of the selection and awaits.
SettleSelection(p, selectionId, result) ==
    /\ Free(p)
    /\ selections' = [selections EXCEPT ![selectionId] = result]
    /\ procs' = [procs EXCEPT ![p] =
          NextBet([IdleProc EXCEPT !.op = "cascade", !.selectionId = selectionId,
                                   !.result = result,
                                   !.queue = getBetsBySelection(selectionId)])]
    /\ UnchangedWallets /\ UNCHANGED <<bets, selectionBetsIndex, nextBetId>>
    /\ UnchangedSettlements

\* bet.selections.find((s) => s.selectionId === selectionId): the first match, 0
\* when there is none.
FindSelection(bet, selectionId) ==
    LET hits == {i \in 1..Len(bet.selections) :
                    bet.selections[i].selectionId = selectionId}
    IN  IF hits = {} THEN 0 ELSE CHOOSE i \in hits : \A j \in hits : i <= j

\* The bet after handleSelectionSettled wrote the result on its selection.
UpdateSelection(bet, selectionId, result) ==
    LET i == FindSelection(bet, selectionId)
    IN  IF i = 0 THEN bet ELSE [bet EXCEPT !.selections[i].status = result]

\* A handleSelectionSettled that pays a bet whose selections are all void as won.
CascadeResultNoVoid(bet) ==
    LET pending == CountStatus(bet, {"pending"})
        lost == CountStatus(bet, {"lost", "loser"})
    IN  IF lost > 0 THEN "lost"
        ELSE IF pending = 0 THEN "won"
        ELSE "open"

\* A handleSelectionSettled that decides nothing while a selection is pending.
CascadeResultWaits(bet) ==
    LET pending == CountStatus(bet, {"pending"})
        lost == CountStatus(bet, {"lost", "loser"})
        voided == CountStatus(bet, {"void"})
        active == CountStatus(bet, SelectionStatuses \ {"void"})
    IN  IF pending > 0 THEN "open"
        ELSE IF lost > 0 THEN "lost"
        ELSE IF voided > 0 /\ active = 0 THEN "void" ELSE "won"

\* A handleSelectionSettled that pays a bet as soon as one selection has won.
CascadeResultEarly(bet) ==
    LET lost == CountStatus(bet, {"lost", "loser"})
        voided == CountStatus(bet, {"void"})
        active == CountStatus(bet, SelectionStatuses \ {"void"})
    IN  IF lost > 0 THEN "lost"
        ELSE IF voided > 0 /\ active = 0 THEN "void" ELSE "won"

\* What handleSelectionSettled decides for a bet (lines 735-758): "lost", "won",
\* "void", or "open" when the bet is left as it is.
CascadeResult(bet) ==
    LET pending == CountStatus(bet, {"pending"})
        lost == CountStatus(bet, {"lost", "loser"})
        voided == CountStatus(bet, {"void"})
        active == CountStatus(bet, SelectionStatuses \ {"void"})
    IN  IF lost > 0 THEN "lost"
        ELSE IF pending = 0
        THEN (IF voided > 0 /\ active = 0 THEN "void" ELSE "won")
        ELSE "open"

\* A settledAmount that keeps the odds of the void selections.
CascadeAmountAll(bet) ==
    StakeTimesOdds(bet.stake, bet.selections, 1, SelectionStatuses)

\* bet.stake * finalOdds over the selections that are not void.
CascadeAmount(bet) ==
    StakeTimesOdds(bet.stake, bet.selections, 1, SelectionStatuses \ {"void"})

\* One turn of handleSelectionSettled's loop, up to its await: the selection is
\* updated, and bet.settle is called or the bet saved.
CascadeBet(p) ==
    LET pr == procs[p]
        b == Head(pr.queue)
        bet == UpdateSelection(bets[b], pr.selectionId, pr.result)
        result == CascadeResult(bet)
    IN  /\ pr.pc = "cascade_bet"
        /\ bets' = [bets EXCEPT ![b] = bet]
        /\ procs' = [procs EXCEPT ![p] =
              IF result = "lost"
              THEN [pr EXCEPT !.handler = "settle", !.pc = "settle_bet", !.betId = b,
                              !.settleResult = "lost", !.settledAmount = 0]
              ELSE IF result = "open"
              THEN NextBet([pr EXCEPT !.queue = Tail(@)])
              ELSE [pr EXCEPT !.handler = "settle", !.pc = "settle_bet", !.betId = b,
                              !.settleResult = result,
                              !.settledAmount = CascadeAmount(bet)]]
        /\ UnchangedWallets /\ UNCHANGED <<selectionBetsIndex, selections, nextBetId>>
        /\ UnchangedSettlements

----------------------------------------------------------------------------
(* Settlement service (settlement.service.js) and the event service's market *)
(* and selection status (base.provider.js)                                   *)

\* The market each selection was created in (createMarket), and the ids the
\* event service does not know.
MarketOf(s) == CASE s = "s1" -> "m1" [] s = "s2" -> "m2" [] OTHER -> "m1"
UnknownSelection == "sx"
UnknownMarket == "mx"

\* A call through the broker reaches its handler, or the broker fails it before
\* the handler runs (request timeout, open circuit breaker, full bulkhead queue).
BrokerOutcomes == {"delivered", "REQUEST_REJECTED"}

\* How event.settleSelection ends for its caller.
settleSelectionError(selectionId, outcome) ==
    IF outcome # "delivered" THEN outcome
    ELSE IF selectionId \notin SelectionIds THEN "SELECTION_NOT_FOUND"
    ELSE "ok"

\* How event.updateMarketStatus ends for its caller.
updateMarketStatusError(marketId, outcome) ==
    IF outcome # "delivered" THEN outcome
    ELSE IF marketId \notin MarketIds THEN "MARKET_NOT_FOUND"
    ELSE "ok"

\* The bet service's handler of selection.settled, up to its first await.
handleSelectionSettled(selectionId, result) ==
    NextBet([IdleProc EXCEPT !.op = "cascade", !.selectionId = selectionId,
                             !.result = result,
                             !.queue = getBetsBySelection(selectionId)])

\* processSelectionResult called by p, which goes on as next: when the call ends
\* with err = "ok" event.settleSelection wrote the result and emitted
\* selection.settled, whose handler runs beside p; otherwise nothing was written.
processSelectionResult(p, selectionId, result, err, next) ==
    IF err = "ok"
    THEN \E q \in Procs \ {p} :
            /\ Free(q)
            /\ selections' = [selections EXCEPT ![selectionId] = result]
            /\ procs' = [procs EXCEPT ![p] = next,
                                      ![q] = handleSelectionSettled(selectionId, result)]
    ELSE /\ selections' = selections
         /\ procs' = [procs EXCEPT ![p] = next]

\* uuidv4() for a settlement: an id this.settlements does not hold (the ids
\* are drawn in order).
FreeSettlements ==
    {i \in SettlementIds :
        /\ settlements[i].status = "none"
        /\ \A j \in 1..(i - 1) : settlements[j].status # "none"}

\* No settlement is recorded yet.
NoSettlementYet == \A i \in SettlementIds : settlements[i].status = "none"

(* settleMarket *)
\* The record is stored and the loop over the results entered.
CallSettleMarket(p, marketId, results) ==
    /\ Free(p)
    /\ \E id \in FreeSettlements :
          /\ settlements' = [settlements EXCEPT ![id] =
                [marketId |-> marketId, results |-> results, status |-> "processing",
                 processedSelections |-> 0, errors |-> <<>>]]
          /\ procs' = [procs EXCEPT ![p] =
                [IdleProc EXCEPT !.op = "settleMarket", !.handler = "settleMarket",
                                 !.pc = IF results = <<>> THEN "market_status"
                                        ELSE "market_selection",
                                 !.settlementId = id, !.marketId = marketId,
                                 !.idx = 1]]
    /\ UnchangedWallets /\ UnchangedEvents
    /\ UNCHANGED <<bets, selectionBetsIndex, selections, nextBetId, markets>>

\* A settleMarket whose loop ends at the first result that fails.
FailedSelectionStops(pr, st, err) ==
    [pr EXCEPT !.idx = @ + 1,
               !.pc = IF pr.idx = Len(st.results) \/ err # "ok" THEN "market_status"
                      ELSE "market_selection"]

\* settleMarket after one turn of its loop: on to the next result whether or
\* not this one failed, and to the market's status after the last.
NextResult(pr, st, err) ==
    [pr EXCEPT !.idx = @ + 1,
               !.pc = IF pr.idx = Len(st.results) THEN "market_status"
                      ELSE "market_selection"]

\* One turn of settleMarket's loop: the result is applied and counted, or its
\* failure is pushed on the settlement's errors.
MarketSelection(p) ==
    /\ procs[p].pc = "market_selection"
    /\ LET pr == procs[p]
           st == settlements[pr.settlementId]
           r  == st.results[pr.idx]
       IN  \E outcome \in BrokerOutcomes :
              LET err == settleSelectionError(r.selectionId, outcome)
              IN  /\ processSelectionResult(p, r.selectionId, r.result, err,
                                            NextResult(pr, st, err))
                  /\ settlements' = [settlements EXCEPT ![pr.settlementId] =
                        IF err = "ok"
                        THEN [st EXCEPT !.processedSelections = @ + 1]
                        ELSE [st EXCEPT !.errors =
                                 Append(@, [selectionId |-> r.selectionId,
                                            error |-> err])]]
    /\ UnchangedWallets /\ UnchangedEvents
    /\ UNCHANGED <<bets, selectionBetsIndex, nextBetId, markets>>

(* The results settleEvent determines for a market *)
\* Scores are goals and lines tenths of a goal: 25 is the line 2.5.
Tenths(goals) == goals * 10
defaultLine == 25

\* The over/under market of an event as event.get gives it, with the line of its
\* metadata: the selection s1 is its Over and s3 its Under.
OverUnderMarket(line) ==
    [id |-> "m1", type |-> "over_under", line |-> line,
     selections |-> <<[id |-> "s1", name |-> "Over"], [id |-> "s3", name |-> "Under"]>>]

\* A settleOverUnderMarket that takes the line as it is configured.
ConfiguredLine(market) == market.line

\* const line = market.metadata?.line || 2.5: a line of 0 is falsy.
MarketLine(market) == IF market.line = 0 THEN defaultLine ELSE market.line

\* settleOverUnderMarket: the result of each selection of the market.
settleOverUnderMarket(market, homeScore, awayScore) ==
    LET totalGoals == Tenths(homeScore + awayScore)
        line == MarketLine(market)
    IN  [i \in 1..Len(market.selections) |->
            LET isOver == market.selections[i].name = "Over"
            IN  [selectionId |-> market.selections[i].id,
                 result |-> IF totalGoals = line THEN "push"
                            ELSE IF isOver
                            THEN (IF totalGoals > line THEN "winner" ELSE "loser")
                            ELSE (IF totalGoals < line THEN "winner" ELSE "loser")]]

\* The match result market of an event as event.get gives it, and the names of
\* the event's teams; of the market's selections the model keeps s2, the home
\* team's.
homeTeam == "Home"
awayTeam == "Away"
MatchResultMarket ==
    [id |-> "m2", type |-> "1x2", line |-> 0,
     selections |-> <<[id |-> "s2", name |-> homeTeam]>>]

\* A market of a type determineMarketResults does not know (createMarket takes
\* any type).
SpecialMarket ==
    [id |-> "m3", type |-> "correct_score", line |-> 0, selections |-> <<>>]

\* settle1X2Market: the result of each selection of the market.
settle1X2Market(market, homeScore, awayScore) ==
    LET winner == IF homeScore > awayScore THEN homeTeam
                  ELSE IF awayScore > homeScore THEN awayTeam
                  ELSE "Draw"
    IN  [i \in 1..Len(market.selections) |->
            LET isWinner == \/ market.selections[i].name = winner
                            \/ (market.selections[i].name = "Draw"
                                   /\ homeScore = awayScore)
            IN  [selectionId |-> market.selections[i].id,
                 result |-> IF isWinner THEN "winner" ELSE "loser"]]

\* determineMarketResults: no results for a market of another type.
determineMarketResults(market, homeScore, awayScore) ==
    CASE market.type = "1x2" -> settle1X2Market(market, homeScore, awayScore)
      [] market.type = "over_under" ->
            settleOverUnderMarket(market, homeScore, awayScore)
      [] OTHER -> <<>>

\* The markets of the loop from its first market with results on.
RECURSIVE SkipNoResults(_, _, _)
SkipNoResults(eventMarkets, homeScore, awayScore) ==
    IF eventMarkets = <<>> THEN <<>>
    ELSE IF determineMarketResults(Head(eventMarkets), homeScore, awayScore) # <<>>
    THEN eventMarkets
    ELSE SkipNoResults(Tail(eventMarkets), homeScore, awayScore)

\* The caller of settlement.settleEvent: a direct call ends;
\* processPendingSettlements goes on after its `await this.broker.call`, the
\* outcome in hand.
RetSettleEvent(pr, err) ==
    IF pr.op = "processPendingSettlements"
    THEN [pr EXCEPT !.handler = "processPendingSettlements",
                    !.pc = "pending_settled", !.res = err]
    ELSE Finish(pr, err)

\* A settleEvent that catches the error of a market's settlement and goes on
\* with the next market.
NextMarketAlways(pr, err) ==
    LET rest == SkipNoResults(Tail(pr.eventMarkets), pr.homeScore, pr.awayScore)
    IN  [pr EXCEPT !.handler = "settleEvent", !.eventMarkets = rest,
                   !.pc = IF rest = <<>> THEN "event_status" ELSE "event_market"]

\* settleEvent after `await ctx.call("settlement.settleMarket")`: the error of
\* the call is thrown on; when it returned, the loop goes on with the next
\* market of the event that has results, and after the last to the event's
\* status.
NextMarket(pr, err) ==
    LET rest == SkipNoResults(Tail(pr.eventMarkets), pr.homeScore, pr.awayScore)
    IN  IF err # "ok" THEN RetSettleEvent(pr, err)
        ELSE [pr EXCEPT !.handler = "settleEvent", !.eventMarkets = rest,
                        !.pc = IF rest = <<>> THEN "event_status"
                               ELSE "event_market"]

\* The caller of settlement.settleMarket: a direct call ends, settleEvent goes
\* on with its loop.
RetSettleMarket(pr, err) ==
    IF pr.op \in {"settleEvent", "processPendingSettlements"}
    THEN NextMarket(pr, err)
    ELSE Finish(pr, err)

\* event.updateMarketStatus called by settleMarket ("settled") or voidMarket
\* ("voided"), and the rest of the caller: settleMarket writes the status of its
\* settlement; an error of the call is thrown on by both.
MarketStatus(p) ==
    /\ procs[p].pc = "market_status"
    /\ LET pr == procs[p]
           st == settlements[pr.settlementId]
       IN  \E outcome \in BrokerOutcomes :
              LET err == updateMarketStatusError(pr.marketId, outcome)
              IN  /\ markets' = IF err # "ok" THEN markets
                                ELSE [markets EXCEPT ![pr.marketId] =
                                         IF pr.handler = "settleMarket" THEN "settled"
                                         ELSE "voided"]
                  /\ settlements' = IF err # "ok" \/ pr.handler # "settleMarket"
                                    THEN settlements
                                    ELSE [settlements EXCEPT ![pr.settlementId].status =
                                             IF Len(st.errors) > 0
                                             THEN "completed_with_errors"
                                             ELSE "completed"]
                  /\ procs' = [procs EXCEPT ![p] = RetSettleMarket(pr, err)]
    /\ UnchangedWallets /\ UnchangedEvents
    /\ UNCHANGED <<bets, selectionBetsIndex, selections, nextBetId>>

(* settleEvent *)
\* settleEvent after `await ctx.call("event.get")`, for an event with the given
\* markets: the event is unknown, or the loop over its markets is entered and
\* runs to its first market with results.
CallSettleEventOf(p, eventId, homeScore, awayScore, line, eventMarkets) ==
    /\ Free(p)
    /\ LET rest == SkipNoResults(eventMarkets, homeScore, awayScore)
           pr == [IdleProc EXCEPT !.op = "settleEvent", !.handler = "settleEvent",
                                  !.eventId = eventId, !.homeScore = homeScore,
                                  !.awayScore = awayScore, !.line = line,
                                  !.eventMarkets = rest]
       IN  procs' = [procs EXCEPT ![p] =
              IF eventId \notin EventIds THEN Finish(pr, "EVENT_NOT_FOUND")
              ELSE [pr EXCEPT !.pc = IF rest = <<>> THEN "event_status"
                                     ELSE "event_market"]]
    /\ UnchangedWallets /\ UnchangedBets

\* settleEvent for an event whose one market is the over/under market of the
\* given line.
CallSettleEvent(p, eventId, homeScore, awayScore, line) ==
    CallSettleEventOf(p, eventId, homeScore, awayScore, line,
                      <<OverUnderMarket(line)>>)

\* The turn of settleEvent's loop for the event's market: its results are
\* determined and settlement.settleMarket is called with them, which stores its
\* record and enters its loop.
SettleEventMarket(p) ==
    /\ procs[p].pc = "event_market"
    /\ LET pr == procs[p]
           market == Head(pr.eventMarkets)
           results == determineMarketResults(market, pr.homeScore, pr.awayScore)
       IN  \E id \in FreeSettlements :
              /\ settlements' = [settlements EXCEPT ![id] =
                    [marketId |-> market.id, results |-> results,
                     status |-> "processing", processedSelections |-> 0,
                     errors |-> <<>>]]
              /\ procs' = [procs EXCEPT ![p] =
                    [pr EXCEPT !.handler = "settleMarket", !.pc = "market_selection",
                               !.settlementId = id, !.marketId = market.id, !.idx = 1]]
    /\ UnchangedWallets /\ UnchangedEvents
    /\ UNCHANGED <<bets, selectionBetsIndex, selections, nextBetId, markets>>

\* event.updateStatus with status "finished": the event is marked and
\* event.finished emitted with its scores. The emit is not awaited: the
\* notification is in flight when the handler returns (a notification equal to
\* one in flight is handled with it).
updateStatus(eventId, homeScore, awayScore) ==
    /\ events' = [events EXCEPT ![eventId] = "finished"]
    /\ finishedEvents' = finishedEvents \cup
          {[eventId |-> eventId, homeScore |-> homeScore, awayScore |-> awayScore]}

\* event.updateStatus(finished) called by settleEvent, which returns to its
\* caller.
EventStatus(p) ==
    /\ procs[p].pc = "event_status"
    /\ LET pr == procs[p]
       IN  \E outcome \in BrokerOutcomes :
              IF outcome # "delivered"
              THEN /\ procs' = [procs EXCEPT ![p] = RetSettleEvent(pr, outcome)]
                   /\ UnchangedEvents
              ELSE /\ updateStatus(pr.eventId, pr.homeScore, pr.awayScore)
                   /\ pendingSettlements' = pendingSettlements
                   /\ procs' = [procs EXCEPT ![p] = RetSettleEvent(pr, "ok")]
    /\ UnchangedWallets
    /\ UNCHANGED <<bets, selectionBetsIndex, selections, nextBetId, markets, settlements>>

(* The pending settlements *)
retryAttempts == 3

\* event.get gives the event with its markets; of the markets createDefaultMarkets
\* gives an event the model keeps the over/under market.
getMarketsByEvent(eventId) == <<OverUnderMarket(defaultLine)>>

\* The event ids in the order this.pendingSettlements holds its entries (one
\* event here).
EventOrder == <<"e1">>

\* The sequence without the event id.
Remove(queue, eventId) == SelectSeq(queue, LAMBDA e : e # eventId)

\* The invocation is a processPendingSettlements within its loop.
InTurn(pr) == pr.op = "processPendingSettlements" /\ pr.pc # "done"

\* The entry of the map under eventId is replaced or deleted: the loops that
\* took it as `pending` hold the object from now on apart from the map, with
\* the retryCount it has; loops that took it together go on sharing it
\* (pendingRef names the object, 0 the one the map holds).
Detach(ps, pending, eventId) ==
    LET holders == {q \in Procs : /\ InTurn(ps[q])
                                  /\ ps[q].eventId = eventId
                                  /\ ps[q].pendingRef = 0}
        ref == CHOOSE k \in 1..NumProcs : \A q \in Procs : ps[q].pendingRef # k
    IN  [q \in Procs |->
            IF q \in holders
            THEN [ps[q] EXCEPT !.pendingRef = ref,
                               !.retryCount = pending[eventId].retryCount]
            ELSE ps[q]]

\* The listener of event.finished in the settlement service handles a
\* notification in flight: this.pendingSettlements.set(eventId, {...}) puts a
\* new object under the key, without a retryCount. A key the map did not hold
\* is appended to its entries, where the loops under way will come to it.
EventFinished ==
    \E msg \in finishedEvents :
        LET eventId == msg.eventId
            present == pendingSettlements[eventId].queued
            ps == Detach(procs, pendingSettlements, eventId)
        IN  /\ finishedEvents' = finishedEvents \ {msg}
            /\ pendingSettlements' = [pendingSettlements EXCEPT ![eventId] =
                  [queued |-> TRUE, homeScore |-> msg.homeScore,
                   awayScore |-> msg.awayScore, retryCount |-> 0]]
            /\ procs' = [q \in Procs |->
                  IF present \/ ~InTurn(ps[q]) THEN ps[q]
                  ELSE [ps[q] EXCEPT !.queue = Append(Remove(@, eventId), eventId)]]
    /\ events' = events
    /\ UnchangedWallets
    /\ UNCHANGED <<bets, selectionBetsIndex, selections, nextBetId, markets, settlements>>

\* event.updateStatus(finished) called with the final score of an event by
\* the source of the results.
CallUpdateStatus(eventId, homeScore, awayScore) ==
    /\ updateStatus(eventId, homeScore, awayScore)
    /\ UNCHANGED <<pendingSettlements, procs>>
    /\ UnchangedWallets
    /\ UNCHANGED <<bets, selectionBetsIndex, selections, nextBetId, markets, settlements>>

\* The loop of processPendingSettlements comes to its next entry: the entries
\* left that the map still holds are gone through in order; the first is taken
\* as `pending` and settlement.settleEvent called with its scores, which the
\* broker rejects or which reads the event and enters its loop; with no entry
\* left processPendingSettlements returns.
PendingTurn(pending, queue, outcome) ==
    LET live == SelectSeq(queue, LAMBDA e : pending[e].queued)
        processor == [IdleProc EXCEPT !.op = "processPendingSettlements"]
    IN  IF live = <<>> THEN Finish(processor, "ok")
        ELSE LET eventId == Head(live)
                 rest == SkipNoResults(getMarketsByEvent(eventId),
                                       pending[eventId].homeScore,
                                       pending[eventId].awayScore)
                 pr == [processor EXCEPT !.handler = "settleEvent",
                                         !.eventId = eventId,
                                         !.homeScore = pending[eventId].homeScore,
                                         !.awayScore = pending[eventId].awayScore,
                                         !.line = defaultLine,
                                         !.eventMarkets = rest,
                                         !.queue = Tail(live)]
             IN  IF outcome # "delivered" THEN RetSettleEvent(pr, outcome)
                 ELSE [pr EXCEPT !.pc = IF rest = <<>> THEN "event_status"
                                        ELSE "event_market"]

\* The timer of startProcessor fires: processPendingSettlements starts on the
\* entries of the map, whether or not an earlier one is still under way.
processPendingSettlements(p) ==
    /\ Free(p)
    /\ \E outcome \in BrokerOutcomes :
          procs' = [procs EXCEPT ![p] =
             PendingTurn(pendingSettlements,
                         SelectSeq(EventOrder,
                                   LAMBDA e : pendingSettlements[e].queued),
                         outcome)]
    /\ UnchangedWallets /\ UnchangedBets

\* processPendingSettlements after `await this.broker.call`: the call returned
\* and the key is deleted, or it threw, the retryCount of `pending` is counted
\* up and the key deleted when it has reached retryAttempts; then the loop
\* goes on.
PendingSettled(p) ==
    /\ procs[p].pc = "pending_settled"
    /\ LET pr == procs[p]
           eventId == pr.eventId
           held == pr.pendingRef = 0
           retryCount == 1 + (IF held THEN pendingSettlements[eventId].retryCount
                              ELSE pr.retryCount)
           counted == IF pr.res = "ok" \/ ~held THEN pendingSettlements
                      ELSE [pendingSettlements EXCEPT
                               ![eventId].retryCount = retryCount]
           shared == [q \in Procs |->
                        IF pr.res # "ok" /\ ~held /\ procs[q].pendingRef = pr.pendingRef
                        THEN [procs[q] EXCEPT !.retryCount = retryCount]
                        ELSE procs[q]]
           delete == pr.res = "ok" \/ retryCount >= retryAttempts
           pending == IF delete THEN [counted EXCEPT ![eventId] = NoPending]
                      ELSE counted
           ps == IF delete /\ counted[eventId].queued
                 THEN Detach([shared EXCEPT ![p] = IdleProc], counted, eventId)
                 ELSE shared
       IN  /\ pendingSettlements' = pending
           /\ \E outcome \in BrokerOutcomes :
                 procs' = [ps EXCEPT ![p] = PendingTurn(pending, pr.queue, outcome)]
    /\ UNCHANGED <<events, finishedEvents>>
    /\ UnchangedWallets
    /\ UNCHANGED <<bets, selectionBetsIndex, selections, nextBetId, markets, settlements>>

(* voidMarket *)
\* getBetsForMarket(marketId): the empty list, whatever the market.
getBetsForMarket(marketId) == <<>>

\* voidMarket reads the bets of the market and loops over them; the list being
\* empty, the loop (lines 185-223) has no turn and the market's status is next.
CallVoidMarket(p, marketId) ==
    /\ Free(p)
    /\ getBetsForMarket(marketId) = <<>>
    /\ procs' = [procs EXCEPT ![p] =
          [IdleProc EXCEPT !.op = "voidMarket", !.handler = "voidMarket",
                           !.pc = "market_status", !.marketId = marketId,
                           !.queue = getBetsForMarket(marketId)]]
    /\ UnchangedWallets /\ UnchangedBets

(* retry *)
\* retry goes on with the next entry of settlement.errors, or returns.
NextError(pr, st) ==
    IF pr.idx > Len(st.errors) THEN Finish(pr, "ok")
    ELSE [pr EXCEPT !.pc = "retry_selection"]

CallRetry(p, settlementId) ==
    /\ Free(p)
    /\ LET st == settlements[settlementId]
           pr == [IdleProc EXCEPT !.op = "retry", !.handler = "retry",
                                  !.settlementId = settlementId, !.idx = 1]
       IN  procs' = [procs EXCEPT ![p] =
              IF st.status = "none" THEN Finish(pr, "SETTLEMENT_NOT_FOUND")
              ELSE NextError(pr, st)]
    /\ UnchangedWallets /\ UnchangedBets

\* settlement.results.find((r) => r.selectionId === selectionId): the first match.
FindResult(st, selectionId) ==
    LET hits == {i \in 1..Len(st.results) : st.results[i].selectionId = selectionId}
    IN  st.results[CHOOSE i \in hits : \A j \in hits : i <= j]

\* One turn of retry's loop over settlement.errors: the result of the failed
\* selection is processed again and the outcome pushed on retryResults; the
\* settlement record is left as it is.
RetrySelection(p) ==
    /\ procs[p].pc = "retry_selection"
    /\ LET pr == procs[p]
           st == settlements[pr.settlementId]
           r  == FindResult(st, st.errors[pr.idx].selectionId)
       IN  \E outcome \in BrokerOutcomes :
              LET err == settleSelectionError(r.selectionId, outcome)
                  pushed == [pr EXCEPT !.idx = @ + 1,
                                       !.retryResults =
                                           Append(@, [selectionId |-> r.selectionId,
                                                      success |-> err = "ok"])]
              IN  processSelectionResult(p, r.selectionId, r.result, err,
                                         NextError(pushed, st))
    /\ UnchangedWallets /\ UnchangedEvents
    /\ UNCHANGED <<bets, selectionBetsIndex, nextBetId, markets, settlements>>

----------------------------------------------------------------------------
(* Inputs of the calls *)

Amounts == {10000}
Item(s, e, odds) == [eventId |-> e, selectionId |-> s, odds |-> odds]
\* Requests that pass validation: the quoted odds, an affordable stake.
SingleItems == {Item("s1", "e1", 200)}
AccumulatorItems == {<<Item("s1", "e1", 200), Item("s2", "e2", 150)>>}
Stakes == {10000}
\* Requests for a single bet: the quoted odds, odds that have moved, long odds.
AnySingleItems == {Item("s1", "e1", 200), Item("s1", "e1", 150), Item("s3", "e2", 600)}
\* Requests for an accumulator: quoted odds, moved odds, one event twice, long
\* odds, too many selections.
AnyAccumulatorItems ==
    {<<Item("s1", "e1", 200), Item("s2", "e2", 150)>>,
     <<Item("s1", "e1", 200), Item("s2", "e2", 200)>>,
     <<Item("s1", "e1", 200), Item("s2", "e1", 150)>>,
     <<Item("s1", "e1", 200), Item("s3", "e2", 600)>>,
     [i \in 1..(maxSelections + 1) |-> Item("s1", "e1", 200)]}
\* Stakes: below the minimum, affordable, the maximum, above the maximum.
AnyStakes == {5, 10000, maxStake, maxStake + 1000}

----------------------------------------------------------------------------
(* The ledger and the placements: every action of the wallet service and    *)
(* both placements, called concurrently on a wallet that was just created.  *)

\* The event service holds its markets open, the settlement service no record.
NoSettlements ==
    /\ markets = [m \in MarketIds |-> "open"]
    /\ settlements = [i \in SettlementIds |-> NoSettlement]
    /\ events = [e \in EventIds |-> "scheduled"]
    /\ pendingSettlements = [e \in EventIds |-> NoPending]
    /\ finishedEvents = {}

EmptyBets ==
    /\ bets = [b \in BetIds |-> NoBet]
    /\ selectionBetsIndex = [s \in SelectionIds |-> <<>>]
    /\ selections = [s \in SelectionIds |-> "active"]
    /\ nextBetId = 0
    /\ NoSettlements

Init ==
    /\ wallets = [u \in Users |-> NewWallet]
    /\ locks = [l \in LockIds |-> NoLock]
    /\ transactions = [u \in Users |-> <<>>]
    /\ procs = [p \in Procs |-> IdleProc]
    /\ EmptyBets

Next ==
    \E p \in Procs :
        \/ \E a \in Amounts : CallDeposit(p, "u1", a)
        \/ DepositWallet(p)
        \/ \E a \in Amounts : CallWithdraw(p, "u1", a)
        \/ WithdrawWallet(p)
        \/ SaveTransaction(p)
        \/ \E item \in SingleItems, stake \in Stakes : CallPlace(p, "u1", item, stake)
        \/ PlaceOdds(p)
        \/ \E items \in AccumulatorItems, stake \in Stakes :
              CallPlaceAccumulator(p, "u1", items, stake)
        \/ AccOdds(p)
        \/ \E a \in Amounts : CallLock(p, "u1", a)
        \/ LockWallet(p)
        \/ LockSave(p)
        \/ \E a \in Amounts, l \in {0} \cup LockIds : CallDebit(p, "u1", a, l)
        \/ DebitWallet(p)
        \/ DebitLock(p)
        \/ DebitCheck(p)
        \/ \E a \in Amounts : CallCredit(p, "u1", a, 0, "bonus")
        \/ CreditWallet(p)
        \/ \E l \in LockIds : CallUnlock(p, l)
        \/ UnlockLock(p)
        \/ UnlockWallet(p)
        \/ UnlockSave(p)
        \/ PlaceSave(p)

Spec == Init /\ [][Next]_vars

----------------------------------------------------------------------------
(* The placements alone: deposits and concurrent place / placeAccumulator   *)
(* calls with any request, on a wallet that was just created.               *)

PlaceNext ==
    \E p \in Procs :
        \/ \E a \in Amounts : CallDeposit(p, "u1", a)
        \/ DepositWallet(p)
        \/ SaveTransaction(p)
        \/ \E item \in AnySingleItems, stake \in AnyStakes :
              CallPlace(p, "u1", item, stake)
        \/ PlaceOdds(p)
        \/ \E items \in AnyAccumulatorItems, stake \in AnyStakes :
              CallPlaceAccumulator(p, "u1", items, stake)
        \/ AccOdds(p)
        \/ LockWallet(p)
        \/ LockSave(p)
        \/ DebitLock(p)
        \/ DebitCheck(p)
        \/ UnlockLock(p)
        \/ PlaceSave(p)

PlaceSpec == Init /\ [][PlaceNext]_vars

----------------------------------------------------------------------------
(* Concurrent wallet.lock calls on a funded wallet. *)

FundedBalances == {10000, 20000, 30000}
LockAmounts == {10000, 20000}
HeldAmounts == {10000}

\* Wallets after one deposit of b, and a lock of e on the wallet of u1 that is
\* still active (no lock when e is 0).
FundedInit(b, e) ==
    LET r == processTransaction(NewWallet, "deposit", b, 0)
    IN  /\ wallets = [u \in Users |->
                          [r[2] EXCEPT !.lockedBalance = IF u = "u1" THEN e ELSE 0]]
        /\ transactions = [u \in Users |-> <<r[3]>>]
        /\ locks = [l \in LockIds |->
                       IF l = 1 /\ e > 0
                       THEN [userId |-> "u1", amount |-> e, referenceId |-> 0,
                             status |-> "active"]
                       ELSE NoLock]
        /\ procs = [p \in Procs |-> IdleProc]
        /\ EmptyBets

LockInit == \E b \in FundedBalances : FundedInit(b, 0)

LockNext ==
    \E p \in Procs :
        \/ \E a \in LockAmounts : CallLock(p, "u1", a)
        \/ LockWallet(p)
        \/ LockSave(p)

LockSpec == LockInit /\ [][LockNext]_vars

----------------------------------------------------------------------------
(* odds.validate calls and placements of single bets on selections that are  *)
(* quoted as expected, quoted otherwise, suspended and unknown, on a wallet  *)
(* that holds one stake.                                                     *)

ValidatedSelections == {"s1", "s4", "s5", UnknownSelection}
\* 2.00 is the quote of s1 and s4 and 5% under the quote of s5; 2.10 is the quote
\* of s5 and 5% above 2.00; 1.90 is more than 5% away from both.
ExpectedOdds == {190, 200, 210}
\* The placements ask for s1, s4, s5 and the unknown selection at 2.00.
ValidatedItems == {Item(sel, "e1", 200) : sel \in ValidatedSelections}

ValidateNext ==
    \E p \in Procs :
        \/ \E sel \in ValidatedSelections, odds \in ExpectedOdds : CallValidate(p, sel, odds)
        \/ \E item \in ValidatedItems, stake \in Stakes : CallPlace(p, "u1", item, stake)
        \/ PlaceOdds(p)
        \/ LockWallet(p)
        \/ LockSave(p)
        \/ DebitLock(p)
        \/ DebitCheck(p)
        \/ SaveTransaction(p)
        \/ PlaceSave(p)

ValidateInit == \E stake \in Stakes : FundedInit(stake, 0)

ValidateSpec == ValidateInit /\ [][ValidateNext]_vars

----------------------------------------------------------------------------
(* Placements of single bets and accumulators at the quoted odds, with a     *)
(* stake of whole units and one with odd cents, on a funded wallet.          *)

\* 10.00 and 10.01
WinStakes == {10000, 10010}
WinItems == {Item("s1", "e1", 200), Item("s2", "e2", 150)}

PotentialWinInit == \E b \in FundedBalances : FundedInit(b, 0)

PotentialWinNext ==
    \E p \in Procs :
        \/ \E item \in WinItems, stake \in WinStakes : CallPlace(p, "u1", item, stake)
        \/ PlaceOdds(p)
        \/ \E items \in AccumulatorItems, stake \in WinStakes :
              CallPlaceAccumulator(p, "u1", items, stake)
        \/ AccOdds(p)
        \/ LockWallet(p)
        \/ LockSave(p)
        \/ DebitLock(p)
        \/ DebitCheck(p)
        \/ SaveTransaction(p)
        \/ UnlockLock(p)
        \/ PlaceSave(p)

PotentialWinSpec == PotentialWinInit /\ [][PotentialWinNext]_vars

----------------------------------------------------------------------------
(* wallet.lock calls that name their reference, delivered once or more. *)

LockReferences == {1, 2}

RelockNext ==
    \E p \in Procs :
        \/ \E a \in HeldAmounts, ref \in LockReferences : CallLockFor(p, "u1", a, ref)
        \/ LockWallet(p)
        \/ LockSave(p)

RelockSpec == LockInit /\ [][RelockNext]_vars

----------------------------------------------------------------------------
(* One client that locks an amount and then debits it with the lock's id,   *)
(* on a funded wallet that may hold an earlier lock.                        *)

EarlierLocks == {0, 10000, 20000}
TripAmounts == {10000, 20000, 30000}

RoundTripInit ==
    \E b \in FundedBalances, e \in EarlierLocks : e <= b /\ FundedInit(b, e)

RoundTripNext ==
    \E p \in Procs :
        \/ \E a \in TripAmounts :
              /\ \A q \in Procs : procs[q].pc = "idle"
              /\ CallLock(p, "u1", a)
        \/ LockWallet(p)
        \/ LockSave(p)
        \/ /\ procs[p].op = "lock" /\ procs[p].pc = "done" /\ procs[p].res = "ok"
           /\ CallDebit(p, "u1", procs[p].amount, procs[p].lockId)
        \/ DebitWallet(p)
        \/ DebitLock(p)
        \/ DebitCheck(p)
        \/ SaveTransaction(p)

RoundTripSpec == RoundTripInit /\ [][RoundTripNext]_vars

----------------------------------------------------------------------------
(* Calls that end locks: wallet.unlock, and wallet.debit naming a lock, on a *)
(* funded wallet that holds one or two active locks.                         *)

SecondAmounts == {0, 10000}

\* A wallet after one deposit of b, a lock of e1 and, unless e2 is 0, a lock
\* of e2, both still active.
HeldInit ==
    \E b \in FundedBalances, e1 \in HeldAmounts, e2 \in SecondAmounts :
        LET r == processTransaction(NewWallet, "deposit", b, 0)
        IN  /\ e1 + e2 <= b
            /\ wallets = [u \in Users |->
                  [r[2] EXCEPT !.lockedBalance = IF u = "u1" THEN e1 + e2 ELSE 0]]
            /\ transactions = [u \in Users |-> <<r[3]>>]
            /\ locks = [l \in LockIds |->
                           IF l = 1
                           THEN [userId |-> "u1", amount |-> e1, referenceId |-> 0,
                                 status |-> "active"]
                           ELSE IF l = 2 /\ e2 > 0
                           THEN [userId |-> "u1", amount |-> e2, referenceId |-> 0,
                                 status |-> "active"]
                           ELSE NoLock]
            /\ procs = [p \in Procs |-> IdleProc]
            /\ EmptyBets

UnlockNext ==
    \E p \in Procs :
        \/ \E l \in LockIds : CallUnlock(p, l)
        \/ UnlockLock(p)
        \/ UnlockWallet(p)
        \/ UnlockSave(p)

UnlockSpec == HeldInit /\ [][UnlockNext]_vars

EndLockNext ==
    \E p \in Procs :
        \/ \E l \in LockIds : CallUnlock(p, l)
        \/ UnlockLock(p)
        \/ UnlockWallet(p)
        \/ UnlockSave(p)
        \/ \E l \in LockIds, a \in HeldAmounts : CallDebit(p, "u1", a, l)
        \/ DebitWallet(p)
        \/ DebitLock(p)
        \/ DebitCheck(p)
        \/ SaveTransaction(p)

EndLockSpec == HeldInit /\ [][EndLockNext]_vars

\* Debits that name a lock the wallet holds or held, one after or beside the
\* other.
DebitNext ==
    \E p \in Procs :
        \/ \E l \in LockIds, a \in HeldAmounts :
              /\ locks[l].status # "none"
              /\ CallDebit(p, "u1", a, l)
        \/ DebitWallet(p)
        \/ DebitLock(p)
        \/ DebitCheck(p)
        \/ SaveTransaction(p)

DebitSpec == HeldInit /\ [][DebitNext]_vars

----------------------------------------------------------------------------
(* Lock, unlock and debit calls made one after the other on the wallets of   *)
(* two users: a debit can name any lock, also one of the other wallet, and   *)
(* any amount.                                                               *)

DebitAmounts == {5000, 10000}

\* No handler is running.
AllReturned == \A q \in Procs : Free(q)

LockSumInit == \E b \in FundedBalances : FundedInit(b, 0)

LockSumNext ==
    \E p \in Procs :
        \/ \E u \in Users, a \in HeldAmounts : AllReturned /\ CallLock(p, u, a)
        \/ LockWallet(p)
        \/ LockSave(p)
        \/ \E l \in LockIds : AllReturned /\ CallUnlock(p, l)
        \/ UnlockLock(p)
        \/ UnlockWallet(p)
        \/ UnlockSave(p)
        \/ \E u \in Users, a \in DebitAmounts, l \in {0} \cup LockIds :
              AllReturned /\ CallDebit(p, u, a, l)
        \/ DebitWallet(p)
        \/ DebitLock(p)
        \/ DebitCheck(p)
        \/ SaveTransaction(p)

LockSumSpec == LockSumInit /\ [][LockSumNext]_vars

----------------------------------------------------------------------------
(* The mutating wallet calls on a wallet of any status of the schema: the    *)
(* wallet is funded and holds one active lock.                               *)

\* status VARCHAR(20) CHECK (status IN ('active', 'frozen', 'closed'))
WalletStatuses == {"active", "frozen", "closed"}
CreditTypes == {"bet_win", "bet_refund"}

InactiveInit ==
    \E b \in FundedBalances, e \in HeldAmounts, status \in WalletStatuses :
        LET r == processTransaction(NewWallet, "deposit", b, 0)
        IN  /\ wallets = [u \in Users |->
                  [r[2] EXCEPT !.lockedBalance = IF u = "u1" THEN e ELSE 0,
                               !.status = status]]
            /\ transactions = [u \in Users |-> <<r[3]>>]
            /\ locks = [l \in LockIds |->
                           IF l = 1
                           THEN [userId |-> "u1", amount |-> e, referenceId |-> 0,
                                 status |-> "active"]
                           ELSE NoLock]
            /\ procs = [p \in Procs |-> IdleProc]
            /\ EmptyBets

InactiveNext ==
    \E p \in Procs :
        \/ \E a \in LockAmounts : CallLock(p, "u1", a)
        \/ LockWallet(p)
        \/ LockSave(p)
        \/ \E l \in LockIds : CallUnlock(p, l)
        \/ UnlockLock(p)
        \/ UnlockWallet(p)
        \/ UnlockSave(p)
        \/ \E l \in {0} \cup LockIds, a \in HeldAmounts : CallDebit(p, "u1", a, l)
        \/ DebitWallet(p)
        \/ DebitLock(p)
        \/ DebitCheck(p)
        \/ \E a \in HeldAmounts, type \in CreditTypes : CallCredit(p, "u1", a, 1, type)
        \/ CreditWallet(p)
        \/ SaveTransaction(p)

InactiveSpec == InactiveInit /\ [][InactiveNext]_vars

----------------------------------------------------------------------------
(* The bet book after placements: every bet of the book is open, its stake  *)
(* was locked and debited from a wallet funded for all the stakes.          *)

BookSelections == {<<"s1">>, <<"s2">>, <<"s1", "s2">>}
Books == [BetIds -> BookSelections]
BookStakes == {10000}
EventOf(s) == CASE s = "s1" -> "e1" [] s = "s2" -> "e2" [] OTHER -> "e3"

RECURSIVE OddsProduct(_, _)
OddsProduct(sels, i) ==
    IF i > Len(sels) THEN 1 ELSE oddsStore[sels[i]].odds * OddsProduct(sels, i + 1)

\* The bet that place (one selection) or placeAccumulator saves for the
\* selections at their quoted odds.
BookBet(sels, stake, lockId) ==
    LET single == Len(sels) = 1
        combinedOdds == IF single THEN oddsStore[sels[1]].odds
                        ELSE RoundOdds(OddsProduct(sels, 1), Len(sels))
    IN  NewBet([IdleProc EXCEPT
                  !.op = IF single THEN "place" ELSE "placeAccumulator",
                  !.userId = "u1", !.stake = stake, !.lockId = lockId,
                  !.items = [i \in 1..Len(sels) |->
                                Item(sels[i], EventOf(sels[i]), oddsStore[sels[i]].odds)],
                  !.validated = [i \in 1..Len(sels) |-> oddsStore[sels[i]].odds],
                  !.combinedOdds = combinedOdds,
                  !.potentialWin = IF single THEN MulOdds(stake, combinedOdds)
                                   ELSE RoundWin(stake, combinedOdds)])

RECURSIVE BookIndex(_, _, _)
BookIndex(book, stake, b) ==
    IF b = 0 THEN [s \in SelectionIds |-> <<>>]
    ELSE IndexBet(BookIndex(book, stake, b - 1), b, BookBet(book[b], stake, b))

\* The wallet and its transactions after a deposit for all the stakes and the
\* debits of the first b bets.
RECURSIVE BookLedger(_, _)
BookLedger(stake, b) ==
    IF b = 0
    THEN LET r == processTransaction(NewWallet, "deposit", MaxBets * stake, 0)
         IN  [wallet |-> r[2], txns |-> <<r[3]>>]
    ELSE LET prev == BookLedger(stake, b - 1)
             r == processTransaction(prev.wallet, "bet_stake", -stake, b)
         IN  [wallet |-> r[2], txns |-> <<r[3]>> \o prev.txns]

BookInit ==
    \E book \in Books, stake \in BookStakes :
        /\ bets = [b \in BetIds |-> BookBet(book[b], stake, b)]
        /\ selectionBetsIndex = BookIndex(book, stake, MaxBets)
        /\ selections = [s \in SelectionIds |-> "active"]
        /\ nextBetId = MaxBets
        /\ NoSettlements
        /\ wallets = [u \in Users |-> IF u = "u1" THEN BookLedger(stake, MaxBets).wallet
                                      ELSE NewWallet]
        /\ transactions = [u \in Users |-> IF u = "u1" THEN BookLedger(stake, MaxBets).txns
                                           ELSE <<>>]
        /\ locks = [l \in LockIds |->
                       IF l \in BetIds
                       THEN [userId |-> "u1", amount |-> stake, referenceId |-> -l,
                             status |-> "converted"]
                       ELSE NoLock]
        /\ procs = [p \in Procs |-> IdleProc]

----------------------------------------------------------------------------
(* Concurrent wallet.create calls for one user and deposits to the wallet,  *)
(* from a service that holds no wallet.                                     *)

CreateInit ==
    /\ wallets = [u \in Users |-> NoWallet]
    /\ locks = [l \in LockIds |-> NoLock]
    /\ transactions = [u \in Users |-> <<>>]
    /\ procs = [p \in Procs |-> IdleProc]
    /\ EmptyBets

CreateNext ==
    \E p \in Procs :
        \/ CallCreate(p, "u1")
        \/ CreateWallet(p)
        \/ \E a \in FundedBalances : CallDeposit(p, "u1", a)
        \/ DepositWallet(p)
        \/ SaveTransaction(p)

CreateSpec == CreateInit /\ [][CreateNext]_vars

----------------------------------------------------------------------------
(* Concurrent bet.settle calls on the bets of the book. *)

SettleResults == {"won", "lost", "void", "partial"}
SettledAmounts == {NoSettledAmount, 0, 15000}

SettleNext ==
    \E p \in Procs :
        \/ \E b \in BetIds, r \in SettleResults, a \in SettledAmounts :
              CallSettle(p, b, r, a)
        \/ SettleBet(p)
        \/ CreditWallet(p)
        \/ SaveTransaction(p)

SettleSpec == BookInit /\ [][SettleNext]_vars

----------------------------------------------------------------------------
(* bet.settle calls whose wallet.credit can fail: the broker rejects the     *)
(* call, or the amount to credit is not positive.                            *)

FailedResults == {"won", "lost", "void"}
FailedAmounts == {NoSettledAmount, 0 - 5000}

SettleFailNext ==
    \E p \in Procs :
        \/ \E b \in BetIds, r \in FailedResults, a \in FailedAmounts :
              CallSettle(p, b, r, a)
        \/ SettleBet(p)
        \/ CreditWallet(p)
        \/ CreditRejected(p)
        \/ SaveTransaction(p)

SettleFailSpec == BookInit /\ [][SettleFailNext]_vars

----------------------------------------------------------------------------
(* Settlement cascades: the results of the selections are delivered, each    *)
(* selection keeps the result of its first delivery, and every delivery      *)
(* runs handleSelectionSettled concurrently with the others.                 *)

SelectionResults == {"winner", "loser", "void", "push"}
BookedSelections == {"s1", "s2"}

CascadeNext ==
    \E p \in Procs :
        \/ \E s \in BookedSelections, r \in SelectionResults :
              /\ selections[s] \in {"active", r}
              /\ SettleSelection(p, s, r)
        \/ CascadeBet(p)
        \/ SettleBet(p)
        \/ CreditWallet(p)
        \/ SaveTransaction(p)

CascadeSpec == BookInit /\ [][CascadeNext]_vars

\* event.settleSelection called with any result at any time, also for a
\* selection that has one already.
ResettleResults == {"winner", "loser", "void"}

ResettleNext ==
    \E p \in Procs :
        \/ \E s \in BookedSelections, r \in ResettleResults : SettleSelection(p, s, r)
        \/ CascadeBet(p)
        \/ SettleBet(p)
        \/ CreditWallet(p)
        \/ SaveTransaction(p)

ResettleSpec == BookInit /\ [][ResettleNext]_vars

----------------------------------------------------------------------------
(* Market settlements over the book: markets are settled and voided and      *)
(* settlements retried, while the cascades of the applied results run.       *)

Result(s, r) == [selectionId |-> s, result |-> r]
MarketResults == {<<Result("s1", "winner"), Result("s2", "loser")>>,
                  <<Result(UnknownSelection, "winner"), Result("s1", "void")>>}
SettledMarkets == {"m1", UnknownMarket}

SettlementNext ==
    \E p \in Procs :
        \/ \E m \in SettledMarkets, rs \in MarketResults :
              NoSettlementYet /\ CallSettleMarket(p, m, rs)
        \/ MarketSelection(p)
        \/ MarketStatus(p)
        \/ \E m \in MarketIds : CallVoidMarket(p, m)
        \/ \E id \in SettlementIds : CallRetry(p, id)
        \/ RetrySelection(p)
        \/ CascadeBet(p)
        \/ SettleBet(p)
        \/ CreditWallet(p)
        \/ SaveTransaction(p)

SettlementSpec == BookInit /\ [][SettlementNext]_vars

----------------------------------------------------------------------------
(* Events settled from their final score: the results of the over/under      *)
(* market are determined from its line and applied.                          *)

Lines == {0, 10, 20, 25, 30}
Scores == {0, 1, 2}

OverUnderNext ==
    \E p \in Procs :
        \/ \E h \in Scores, a \in Scores, line \in Lines :
              CallSettleEvent(p, "e1", h, a, line)
        \/ NoSettlementYet /\ SettleEventMarket(p)
        \/ MarketSelection(p)
        \/ MarketStatus(p)
        \/ EventStatus(p)

OverUnderSpec == Init /\ [][OverUnderNext]_vars

----------------------------------------------------------------------------
(* Events with the default markets and a market of another type, settled     *)
(* from their final score.                                                   *)

\* createDefaultMarkets: the match result market (sortOrder 1), then the
\* over/under market of line 2.5 (sortOrder 2); a market added by createMarket
\* comes between them here.
DefaultMarkets == <<MatchResultMarket, SpecialMarket, OverUnderMarket(defaultLine)>>

EventNext ==
    \E p \in Procs :
        \/ \E h \in Scores, a \in Scores :
              CallSettleEventOf(p, "e1", h, a, defaultLine, DefaultMarkets)
        \/ SettleEventMarket(p)
        \/ MarketSelection(p)
        \/ MarketStatus(p)
        \/ EventStatus(p)

EventSpec == Init /\ [][EventNext]_vars

----------------------------------------------------------------------------
(* The queue of the settlement processor: the final score of an event        *)
(* arrives, the event is queued and the processor settles it, two of its     *)
(* runs at most under way.                                                   *)

FinalScores == {<<1, 1>>, <<2, 1>>}

QueueNext ==
    \/ \E score \in FinalScores :
          /\ events["e1"] = "scheduled"
          /\ CallUpdateStatus("e1", score[1], score[2])
    \/ EventFinished
    \/ \E p \in Procs :
          \/ processPendingSettlements(p)
          \/ SettleEventMarket(p)
          \/ MarketSelection(p)
          \/ MarketStatus(p)
          \/ EventStatus(p)
          \/ PendingSettled(p)

QueueSpec == Init /\ [][QueueNext]_vars

----------------------------------------------------------------------------
(* Markets settled while the users cash their bets out: the cascade of an     *)
(* applied result runs beside the cash-outs.                                 *)

SettleRaceNext ==
    \E p \in Procs :
        \/ \E rs \in MarketResults : NoSettlementYet /\ CallSettleMarket(p, "m1", rs)
        \/ MarketSelection(p)
        \/ MarketStatus(p)
        \/ CascadeBet(p)
        \/ SettleBet(p)
        \/ \E b \in BetIds : CallCashout(p, "u1", b)
        \/ CashoutBet(p)
        \/ CashoutUpdate(p)
        \/ CreditWallet(p)
        \/ SaveTransaction(p)

SettleRaceSpec == BookInit /\ [][SettleRaceNext]_vars

----------------------------------------------------------------------------
(* Cash-outs racing the settlement cascades. *)

CashoutResults == {"winner", "loser"}

CashoutNext ==
    \E p \in Procs :
        \/ \E b \in BetIds : CallCashout(p, "u1", b)
        \/ CashoutBet(p)
        \/ CashoutUpdate(p)
        \/ \E s \in BookedSelections, r \in CashoutResults :
              /\ selections[s] \in {"active", r}
              /\ SettleSelection(p, s, r)
        \/ CascadeBet(p)
        \/ SettleBet(p)
        \/ CreditWallet(p)
        \/ SaveTransaction(p)

CashoutSpec == BookInit /\ [][CashoutNext]_vars

----------------------------------------------------------------------------
(* Concurrent cash-outs of the open bets of the book, nothing else running.  *)

CashoutRaceNext ==
    \E p \in Procs :
        \/ \E b \in BetIds : CallCashout(p, "u1", b)
        \/ CashoutBet(p)
        \/ CashoutUpdate(p)
        \/ CreditWallet(p)
        \/ SaveTransaction(p)

CashoutRaceSpec == BookInit /\ [][CashoutRaceNext]_vars

----------------------------------------------------------------------------
(* Properties *)

PlaceOps == {"place", "placeAccumulator"}
Done(p) == procs[p].pc = "done"

\* The sum of f[x] over the x of S.
RECURSIVE SumOver(_, _)
SumOver(f, S) ==
    IF S = {} THEN 0
    ELSE LET x == CHOOSE y \in S : TRUE IN f[x] + SumOver(f, S \ {x})

\* The amounts of the locks of status st.
LockedBy(st) ==
    SumOver([l \in LockIds |-> locks[l].amount],
            {l \in LockIds : locks[l].status = st})

\* The amounts that lock handlers have added to lockedBalance and not recorded yet.
LockedInFlight ==
    SumOver([p \in Procs |-> procs[p].amount],
            {p \in Procs : procs[p].pc = "lock_save"})

\* C1: every wallet has 0 <= lockedBalance <= balance in every state, whatever
\* the interleaving of the concurrent placements.
WalletInvariant ==
    \A u \in Users :
        /\ 0 <= wallets[u].lockedBalance
        /\ wallets[u].lockedBalance <= wallets[u].balance

\* C2: concurrent lock calls never reserve more than the wallet holds: the
\* amounts of the locks that succeeded, and of those past their check, never add
\* up to more than the balance, so two calls whose amounts together exceed what
\* was available when the first started never both succeed.
LocksNeverDoubleSpend ==
    /\ LockedBy("active") + LockedInFlight <= wallets["u1"].balance
    /\ wallets["u1"].lockedBalance = LockedBy("active") + LockedInFlight

\* Two lock calls ran concurrently, their amounts exceed the balance together,
\* one succeeded and the other was refused.
LocksRaced ==
    \E p, q \in Procs :
        /\ procs[p].pc = "lock_save"
        /\ Done(q) /\ procs[q].op = "lock" /\ procs[q].res = "INSUFFICIENT_FUNDS"
        /\ procs[q].amount <= wallets["u1"].balance
        /\ procs[p].amount + procs[q].amount > wallets["u1"].balance

\* The client of the round trip has debited the amount it had locked.
TripDone(p) == Done(p) /\ procs[p].op = "debit" /\ procs[p].res = "ok"

\* C3: a lock of a followed by the debit of a with the lock's id leaves
\* lockedBalance at its value before the lock (the earlier lock, still active),
\* the balance lower by exactly a, and exactly one more transaction, the debit.
LockDebitRoundTrip ==
    \A p \in Procs :
        TripDone(p) =>
            LET txs == transactions["u1"]
                a == LockedBy("converted")
                before == txs[Len(txs)].balanceAfter
            IN  /\ a > 0
                /\ wallets["u1"].lockedBalance = LockedBy("active")
                /\ wallets["u1"].balance = before - a
                /\ Len(txs) = 2
                /\ txs[1].type = "bet_stake" /\ txs[1].amount = -a
                /\ txs[1].balanceBefore = before /\ txs[1].balanceAfter = before - a

\* A round trip is done on a wallet that held an earlier lock.
RoundTripDone ==
    \E p \in Procs : TripDone(p) /\ LockedBy("active") > 0

\* A placement has returned after its wallet.debit call threw.
DebitFailed(p) ==
    Done(p) /\ procs[p].op \in PlaceOps /\ procs[p].debitErr # "none"

OriginalDebitError ==
    \A p \in Procs : DebitFailed(p) => procs[p].res = procs[p].debitErr

ValidationErrors ==
    {"MIN_STAKE", "MAX_STAKE", "MAX_SELECTIONS_EXCEEDED", "DUPLICATE_EVENT",
     "ODDS_CHANGED", "MAX_POTENTIAL_WIN_EXCEEDED"}

\* A step of p's placement that has not reached wallet.lock: the call, a
\* validation of odds, or a rejection by validation.
ValidationStep(p) ==
    /\ procs'[p] # procs[p]
    /\ procs'[p].op \in PlaceOps
    /\ \/ procs'[p].pc \in {"place_odds", "acc_odds"}
       \/ procs'[p].pc = "done" /\ procs'[p].res \in ValidationErrors

\* C8: a placement rejected by validation leaves the wallets, locks,
\* transactions and bets as they were, and has made no lock or debit call:
\* no step of the placement up to the rejection changes them.
ValidationLeavesNoTrace ==
    [][\A p \in Procs :
          ValidationStep(p) =>
              /\ UNCHANGED <<wallets, locks, transactions, bets, selectionBetsIndex>>
              /\ procs'[p].lockId = 0 /\ procs'[p].debitErr = "none"]_vars

\* Placements were rejected for the potential win and for moved odds, on a
\* wallet that holds funds.
ValidationRejected ==
    /\ wallets["u1"].balance > 0
    /\ \E p, q \in Procs :
          /\ Done(p) /\ procs[p].op \in PlaceOps
          /\ procs[p].res = "MAX_POTENTIAL_WIN_EXCEEDED"
          /\ Done(q) /\ procs[q].op \in PlaceOps /\ procs[q].res = "ODDS_CHANGED"

\* The credits recorded for bet b, and those made on the wallet whose
\* transaction is not saved yet.
CreditsFor(b) ==
    LET txs == transactions["u1"]
    IN  Cardinality({i \in 1..Len(txs) : txs[i].referenceId = b /\ txs[i].amount > 0})
CreditsInFlight(b) ==
    Cardinality({p \in Procs : /\ procs[p].pc = "saveTransaction"
                               /\ procs[p].handler = "credit"
                               /\ procs[p].referenceId = b})

\* A bet.settle call reads a bet that is no longer open.
LateSettle(p) ==
    /\ procs[p].pc = "settle_bet"
    /\ procs'[p] # procs[p]
    /\ bets[procs[p].betId].status \notin {"open", "none"}

\* C4: whatever the number of Settle calls for a bet, in sequence or
\* concurrently, the wallet is credited for it at most once, and a call that
\* finds the bet settled fails with BET_ALREADY_SETTLED and changes neither the
\* bet nor the wallet.
SettleCreditsOnce ==
    /\ [](\A b \in BetIds : CreditsFor(b) + CreditsInFlight(b) <= 1)
    /\ [][\A p \in Procs :
            LateSettle(p) =>
                /\ procs'[p].pc = "done" /\ procs'[p].res = "BET_ALREADY_SETTLED"
                /\ UNCHANGED <<bets, wallets, transactions>>]_vars

\* A Settle call was refused for a bet that another call had settled and
\* credited, while a third is in flight.
SettleRefused ==
    \E p, q \in Procs :
        /\ Done(p) /\ procs[p].op = "settle" /\ procs[p].res = "BET_ALREADY_SETTLED"
        /\ CreditsFor(procs[p].betId) = 1
        /\ procs[q].pc = "settle_bet" /\ procs[q].betId = procs[p].betId

\* C5: a bet is never paid both by a cash-out and by a settlement: it does not
\* hold a cash-out amount and a settled amount with two credits made for it.
CashoutOrSettlement ==
    \A b \in BetIds :
        ~ /\ bets[b].cashoutAmount > 0
          /\ bets[b].settledAmount > 0
          /\ CreditsFor(b) >= 2

\* The event service holds a result for every selection of bet b.
Resolved(b) ==
    \A i \in 1..Len(bets[b].selections) :
        selections[bets[b].selections[i].selectionId] # "active"

Quiescent == \A p \in Procs : procs[p].pc \in {"idle", "done"}

\* C9: once every cascade has run to its end, every bet whose selections are
\* all resolved has left the status open, and no bet was credited twice.
ResolvedBetsSettle ==
    /\ Quiescent => \A b \in BetIds : Resolved(b) => bets[b].status # "open"
    /\ \A b \in BetIds : CreditsFor(b) + CreditsInFlight(b) <= 1

HasLoser(b) ==
    \E i \in 1..Len(bets[b].selections) : bets[b].selections[i].status = "loser"

CreditCalls(b) ==
    CreditsFor(b)
    + Cardinality({p \in Procs : /\ procs[p].handler = "credit"
                                 /\ procs[p].pc \in {"credit_wallet", "saveTransaction"}
                                 /\ procs[p].referenceId = b})

\* Every credit call made for bet b is one of amount amt and type type.
PaidAs(b, amt, type) ==
    LET txs == transactions["u1"]
    IN  /\ \A i \in 1..Len(txs) :
              (txs[i].referenceId = b /\ txs[i].amount > 0) =>
                  (txs[i].amount = amt /\ txs[i].type = type)
        /\ \A p \in Procs :
              (/\ procs[p].handler = "credit"
               /\ procs[p].pc \in {"credit_wallet", "saveTransaction"}
               /\ procs[p].referenceId = b) =>
                  (procs[p].amount = amt /\ procs[p].referenceType = type)

\* A cascade is calling bet.settle for bet b with this result.
SettleInFlight(b, result) ==
    \E p \in Procs : /\ procs[p].op = "cascade" /\ procs[p].pc = "settle_bet"
                     /\ procs[p].betId = b /\ procs[p].settleResult = result

BetStatusCount(b, S) ==
    Cardinality({i \in 1..Len(bets[b].selections) :
                    bets[b].selections[i].status \in S})

\* The stake of bet b times the odds at placement of its selections that are
\* not void.
RECURSIVE NonVoidPayout(_, _, _)
NonVoidPayout(b, i, acc) ==
    IF i > Len(bets[b].selections) THEN acc
    ELSE NonVoidPayout(b, i + 1,
             IF bets[b].selections[i].status = "void" THEN acc
             ELSE (acc * bets[b].selections[i].oddsAtPlacement) \div 100)

\* No selection recorded on bet b is pending or a loser.
AllResolvedNoLoser(b) == BetStatusCount(b, {"pending", "loser", "lost"}) = 0
AllVoid(b) == BetStatusCount(b, SelectionStatuses \ {"void"}) = 0

PushRefundsStake ==
    \A b \in BetIds :
        (bets[b].betType = "single" /\ BetStatusCount(b, {"push"}) = 1
         /\ bets[b].status # "open") =>
            PaidAs(b, bets[b].stake, "bet_refund") /\ CreditCalls(b) = 1

AllInMarket(b, m) ==
    \A i \in 1..Len(bets[b].selections) :
        MarketOf(bets[b].selections[i].selectionId) = m

\* voidMarket has returned for market m.
VoidedMarket(m) ==
    \E p \in Procs : /\ Done(p) /\ procs[p].op = "voidMarket"
                     /\ procs[p].res = "ok" /\ procs[p].marketId = m

\* C14: once voidMarket has returned for a market, no bet whose selections all
\* belong to the market is still open (a bet open now was open at the call, and
\* is to be void with its stake refunded), and no selection of the market is
\* still pending on a bet.
VoidMarketRefunds ==
    \A m \in MarketIds :
        VoidedMarket(m) =>
            \A b \in BetIds :
                /\ AllInMarket(b, m) =>
                      /\ bets[b].status # "open"
                      /\ bets[b].status = "void" =>
                            PaidAs(b, bets[b].stake, "bet_refund")
                /\ \A i \in 1..Len(bets[b].selections) :
                      MarketOf(bets[b].selections[i].selectionId) = m =>
                          bets[b].selections[i].status # "pending"

\* The selection that a step of retry p applies with success, "none" if the
\* step is no such step.
RetryApplied(p) ==
    LET before == procs[p].retryResults
        after == procs'[p].retryResults
    IN  IF /\ procs[p].pc = "retry_selection"
           /\ Len(after) = Len(before) + 1
           /\ after[Len(after)].success
        THEN after[Len(after)].selectionId
        ELSE "none"

\* C19: a retry applies a selection only if the selection has not succeeded
\* before, in the original run or in an earlier retry: the results of the one
\* settlement being the only ones applied, the selection is still active.
RetryAppliesOnce ==
    [][\A p \in Procs :
          RetryApplied(p) # "none" => selections[RetryApplied(p)] = "active"]_vars

\* Every result of settlement st was attempted: applied and counted, or recorded
\* in its errors, which name selections of its results.
AllAttempted(st) ==
    /\ st.processedSelections + Len(st.errors) = Len(st.results)
    /\ \A i \in 1..Len(st.errors) :
          \E j \in 1..Len(st.results) :
              st.results[j].selectionId = st.errors[i].selectionId

\* A turn of settleMarket's loop by p applies its result and counts it, or
\* records its failure and applies nothing.
TurnCollects(p) ==
    LET st == settlements[procs[p].settlementId]
        after == settlements'[procs[p].settlementId]
        r == st.results[procs[p].idx]
    IN  \/ /\ after.processedSelections = st.processedSelections + 1
           /\ after.errors = st.errors
           /\ selections'[r.selectionId] = r.result
        \/ /\ after.processedSelections = st.processedSelections
           /\ Len(after.errors) = Len(st.errors) + 1
           /\ after.errors[Len(after.errors)].selectionId = r.selectionId
           /\ selections' = selections

Releasing(l) ==
    \E p \in Procs : procs[p].pc = "unlock_save" /\ procs[p].lockId = l

\* The amounts that lockedBalance holds: those of the active locks that no
\* unlock has taken off yet.
HeldByLocks ==
    SumOver([l \in LockIds |-> locks[l].amount],
            {l \in LockIds : locks[l].status = "active" /\ ~Releasing(l)})

\* C15: unlock calls take the amount of a lock off lockedBalance once, however
\* many of them name the lock, a call on a lock that is not active changing
\* nothing: lockedBalance is the sum of the amounts of the locks still held.
UnlockDecrementsOnce == wallets["u1"].lockedBalance = HeldByLocks

\* C16: the status of a lock changes only from active, to released or to
\* converted; a released or converted lock keeps its status.
LockEndsOnce ==
    [][\A l \in LockIds :
          locks'[l].status # locks[l].status =>
              /\ locks[l].status = "active"
              /\ locks'[l].status \in {"released", "converted"}]_vars

\* The amount of the deposit that funded the wallet: its oldest transaction.
Deposited == transactions["u1"][Len(transactions["u1"])].amount

\* C17: debits of a lock's amount that name the lock reduce the balance once per
\* lock, however many times they are delivered: the balance is never less than
\* the deposit less the amounts of the converted locks.
DebitOncePerLock ==
    wallets["u1"].balance >= Deposited - SumOver([l \in LockIds |-> locks[l].amount],
                                                 {l \in LockIds : locks[l].status = "converted"})

\* The amount reserved for reference r: the amounts of the active locks that
\* name it, and of the lock calls that have raised lockedBalance for it and not
\* yet recorded their lock.
ReservedFor(r) ==
    SumOver([l \in LockIds |-> locks[l].amount],
            {l \in LockIds : locks[l].status = "active" /\ locks[l].referenceId = r})
    + SumOver([p \in Procs |-> procs[p].amount],
              {p \in Procs : procs[p].pc = "lock_save" /\ procs[p].referenceId = r})

\* C18: lock calls that name the same reference reserve their amount once: one
\* active lock names the reference, and what is reserved for the reference is
\* the amount of that lock.
LockOncePerReference ==
    \A r \in LockReferences :
        /\ Cardinality({l \in LockIds : locks[l].status = "active"
                                        /\ locks[l].referenceId = r}) <= 1
        /\ \A l \in LockIds :
              (locks[l].status = "active" /\ locks[l].referenceId = r) =>
                  ReservedFor(r) = locks[l].amount

\* A cascade has ended on an error thrown by bet.settle for a bet.
FailedCascade(q) ==
    /\ procs[q].op = "cascade" /\ Done(q) /\ procs[q].res # "ok"

\* Some settlement's errors name a selection of bet b.
ErrorRecordedFor(b) ==
    \E id \in SettlementIds :
        \E i \in 1..Len(settlements[id].errors), j \in 1..Len(bets[b].selections) :
            settlements[id].errors[i].selectionId = bets[b].selections[j].selectionId

\* C21: when the cascade of a selection result has ended on an error of
\* bet.settle or wallet.credit for a bet, then, once the handlers have run to
\* their end, a settlement's errors name the selection, a selection of that bet.
CascadeFailureRecorded ==
    Quiescent =>
        \A q \in Procs : FailedCascade(q) => ErrorRecordedFor(procs[q].betId)

\* The result the over/under rule gives a selection named name for a market
\* of the line, in tenths, and the scores.
OverUnderRule(name, line, homeScore, awayScore) ==
    LET total == Tenths(homeScore + awayScore)
    IN  IF total = line THEN "push"
        ELSE IF name = "Over" THEN (IF total > line THEN "winner" ELSE "loser")
        ELSE (IF total < line THEN "winner" ELSE "loser")

CashoutRule(bet) ==
    10 * RoundDiv(StakeTimesOdds(bet.stake, bet.selections, 1, {"won", "winner"}) * 9,
                  100)

\* C23: the value that cashout computes for an open bet with a pending
\* selection and no lost one, and then credits, is the stake times the odds of
\* the selections that have won times 0.9, rounded to cents.
CashoutCountsWinners ==
    [][\A p \in Procs :
          LET bet == bets[procs[p].betId]
          IN  (/\ procs[p].pc = "cashout_bet" /\ procs'[p].pc = "credit_wallet"
               /\ CountStatus(bet, {"pending"}) > 0
               /\ CountStatus(bet, {"lost", "loser"}) = 0)
                  => procs'[p].amount = CashoutRule(bet)]_vars

\* C24: a bet whose status has left open keeps its status in every step, of a
\* cash-out, a settlement or a cascade.
BetStatusFinal ==
    [][\A b \in BetIds :
          bets[b].status \notin {"none", "open"} =>
              bets'[b].status = bets[b].status]_vars

\* What Settle is to credit for a bet and a result: the amount, 0 for none.
SettleRule(bet, result, settledAmount) ==
    IF result = "won"
    THEN (IF settledAmount # NoSettledAmount THEN settledAmount ELSE bet.potentialWin)
    ELSE IF result = "void" THEN bet.stake
    ELSE 0

\* The step of bet.settle by p on an open bet, for a result of won, lost or void.
SettlesOpenBet(p) ==
    /\ procs[p].pc = "settle_bet" /\ procs'[p] # procs[p]
    /\ bets[procs[p].betId].status = "open"
    /\ procs[p].settleResult \in {"won", "lost", "void"}

\* C25: Settle on an open bet gives the bet the result as its status and calls
\* wallet.credit by the result: for won with the settledAmount of the call, or
\* the potential win when there is none, as bet_win; for void with the stake as
\* bet_refund; for lost not at all. The credits made for a settled bet are that
\* one call, or none for a lost bet.
SettleCreditsByResult ==
    /\ [](\A b \in BetIds :
             /\ bets[b].status = "won" =>
                   CreditCalls(b) = 1 /\ PaidAs(b, bets[b].settledAmount, "bet_win")
             /\ (bets[b].status = "void" /\ bets[b].settledAmount = bets[b].stake) =>
                   CreditCalls(b) = 1 /\ PaidAs(b, bets[b].stake, "bet_refund")
             /\ bets[b].status = "lost" => CreditCalls(b) = 0)
    /\ [][\A p \in Procs :
             SettlesOpenBet(p) =>
                 LET b == procs[p].betId
                     result == procs[p].settleResult
                     amount == SettleRule(bets[b], result, procs[p].settledAmount)
                 IN  /\ bets'[b].status = result
                     /\ bets'[b].settledAmount = amount
                     /\ IF result = "lost"
                        THEN procs'[p].pc = "done" /\ procs'[p].res = "ok"
                        ELSE /\ procs'[p].pc = "credit_wallet"
                             /\ procs'[p].amount = amount
                             /\ procs'[p].referenceId = b
                             /\ procs'[p].referenceType =
                                   IF result = "won" THEN "bet_win" ELSE "bet_refund"
                     /\ UNCHANGED <<wallets, transactions>>]_vars

\* C26: a wallet that exists is never replaced by Create: the step of a
\* create.handler that ends it while the user has a wallet fails WALLET_EXISTS
\* and leaves the wallet as it is, whether the Create calls come one after the
\* other or run concurrently.
CreateNeverReplaces ==
    [][\A p \in Procs :
          (procs[p].handler = "create" /\ procs'[p].pc = "done"
             /\ wallets[procs[p].userId].exists)
          => /\ procs'[p].res = "WALLET_EXISTS"
             /\ wallets'[procs[p].userId] = wallets[procs[p].userId]]_vars

\* C27: a lock on an active wallet succeeds iff its amount is at most
\* balance - lockedBalance when the handler checks.  When it is, that step adds
\* exactly the amount to lockedBalance and leaves the balance, and the next step
\* of the handler records a new active lock of the amount and returns it; when
\* it is not, the call fails INSUFFICIENT_FUNDS with the wallet and the locks
\* unchanged.
LockIffAvailable ==
    [][\A p \in Procs :
          LET pr == procs[p]
              wallet == wallets[pr.userId]
          IN  /\ (pr.pc = "lock_wallet" /\ procs'[p] # pr /\ wallet.status = "active") =>
                    IF pr.amount <= wallet.balance - wallet.lockedBalance
                    THEN /\ procs'[p].pc = "lock_save"
                         /\ wallets'[pr.userId] =
                               [wallet EXCEPT !.lockedBalance = @ + pr.amount]
                         /\ locks' = locks
                    ELSE /\ procs'[p].pc = "done"
                         /\ procs'[p].res = "INSUFFICIENT_FUNDS"
                         /\ wallets' = wallets /\ locks' = locks
              /\ (pr.pc = "lock_save" /\ procs'[p] # pr) =>
                    /\ procs'[p].pc = "done" /\ procs'[p].res = "ok"
                    /\ locks[procs'[p].lockId].status = "none"
                    /\ locks' = [locks EXCEPT ![procs'[p].lockId] =
                                    [userId |-> pr.userId, amount |-> pr.amount,
                                     referenceId |-> locks'[procs'[p].lockId].referenceId,
                                     status |-> "active"]]
                    /\ wallets' = wallets]_vars

\* One lock took the whole available balance and is recorded active, and a
\* second lock was refused with INSUFFICIENT_FUNDS; lockedBalance is the
\* amount of the first.
LockTookAllAvailable ==
    \E p, q \in Procs :
        /\ Done(p) /\ procs[p].op = "lock" /\ procs[p].res = "ok"
        /\ locks[procs[p].lockId].status = "active"
        /\ locks[procs[p].lockId].amount = procs[p].amount
        /\ procs[p].amount = wallets["u1"].balance
        /\ wallets["u1"].lockedBalance = procs[p].amount
        /\ Done(q) /\ procs[q].op = "lock" /\ procs[q].res = "INSUFFICIENT_FUNDS"

\* C28: a selection of a bet that has a result keeps it: once its status is
\* not pending, no later result changes it, also while the bet is open.
SelectionStatusFinal ==
    [][\A b \in BetIds : \A j \in 1..Len(bets[b].selections) :
          bets[b].selections[j].status # "pending"
          => bets'[b].selections[j].status = bets[b].selections[j].status]_vars

\* The selection of the item is quoted, active, and its quote is within the
\* tolerance of the odds of the item: |current - expected| / expected <= 0.05.
ValidQuote(item) ==
    /\ item.selectionId \in DOMAIN oddsStore
    /\ oddsStore[item.selectionId].status = "active"
    /\ Abs(oddsStore[item.selectionId].odds - item.odds) * 100 <= oddsTolerance * item.odds

\* C29: odds.validate returns valid, with the current odds, iff the selection
\* exists, is active and its odds are within the tolerance of the expected odds;
\* a selection that is not active fails whatever its odds.  A placement whose
\* validation fails ends ODDS_CHANGED at that step without a lock and leaves
\* wallets, locks, transactions and bets as they were; one whose validation
\* passes is not rejected for its odds.
OddsValidatedByRule ==
    [][\A p \in Procs :
          /\ (procs'[p].op = "validate" /\ procs'[p] # procs[p]) =>
                LET item == procs'[p].items[1]
                IN  IF ValidQuote(item)
                    THEN /\ procs'[p].res = "ok"
                         /\ procs'[p].combinedOdds = oddsStore[item.selectionId].odds
                    ELSE procs'[p].res # "ok"
          /\ (procs[p].pc = "place_odds" /\ procs'[p] # procs[p]) =>
                IF ValidQuote(procs[p].items[1])
                THEN procs'[p].res # "ODDS_CHANGED"
                ELSE /\ procs'[p].pc = "done" /\ procs'[p].res = "ODDS_CHANGED"
                     /\ procs'[p].lockId = 0
                     /\ UNCHANGED <<wallets, locks, transactions, bets>>]_vars

\* C30: every stored bet, single or accumulator, has for its potentialWin the
\* product of its stake and its totalOdds rounded to two decimals, and the
\* potentialWin of a stored bet never changes.
PotentialWinRounded ==
    /\ [](\A b \in BetIds :
             bets[b].status # "none" =>
                 bets[b].potentialWin = RoundWin(bets[b].stake, bets[b].totalOdds))
    /\ [][\A b \in BetIds :
             bets[b].status # "none" => bets'[b].potentialWin = bets[b].potentialWin]_vars

RECURSIVE SumAmounts(_)
SumAmounts(txs) ==
    IF txs = <<>> THEN 0 ELSE Head(txs).amount + SumAmounts(Tail(txs))

\* The transactions built by processTransaction and not saved yet.
UnsavedAmounts(u) ==
    SumOver([p \in Procs |-> procs[p].txn.amount],
            {p \in Procs : procs[p].pc = "saveTransaction" /\ procs[p].userId = u})

\* C32: every change of a wallet's balance is recorded by exactly one
\* transaction with balanceBefore the balance just before the change,
\* balanceAfter the balance just after it and balanceAfter = balanceBefore +
\* amount; the record is appended once, by the handler that made the change,
\* which then succeeds; a call that fails changes no balance and appends
\* nothing; transactions already recorded are neither changed nor removed.
LedgerAppendOnly ==
    /\ [](\A u \in Users :
            /\ wallets[u].balance = SumAmounts(transactions[u]) + UnsavedAmounts(u)
            /\ \A i \in 1..Len(transactions[u]) :
                  transactions[u][i].balanceAfter =
                      transactions[u][i].balanceBefore + transactions[u][i].amount)
    /\ [][\A u \in Users :
             /\ wallets'[u].balance # wallets[u].balance =>
                   /\ transactions' = transactions
                   /\ \E p \in Procs :
                         /\ procs[p].pc # "saveTransaction"
                         /\ procs'[p].pc = "saveTransaction"
                         /\ procs'[p].userId = u
                         /\ procs'[p].txn.balanceBefore = wallets[u].balance
                         /\ procs'[p].txn.balanceAfter = wallets'[u].balance
                         /\ procs'[p].txn.amount =
                               wallets'[u].balance - wallets[u].balance
                         /\ \A q \in Procs \ {p} : procs'[q] = procs[q]
             /\ transactions'[u] # transactions[u] =>
                   \E p \in Procs :
                       /\ procs[p].pc = "saveTransaction" /\ procs[p].userId = u
                       /\ transactions'[u] = <<procs[p].txn>> \o transactions[u]
                       /\ procs'[p].pc # "saveTransaction"
                       /\ procs'[p].pc = "done" => procs'[p].res = "ok"
             /\ \A p \in Procs :
                   (procs[p].pc # "done" /\ procs'[p].pc = "done"
                      /\ procs'[p].res # "ok") =>
                       /\ procs[p].pc # "saveTransaction"
                       /\ wallets'[u].balance = wallets[u].balance
                       /\ transactions' = transactions]_vars

\* Two handlers changed the balance one after the other and saved their
\* transactions in the other order, and a third call failed: the list holds
\* the deposit, then a record that starts from the balance the newest record
\* ends with.
LedgerSavedOutOfOrder ==
    /\ Len(transactions["u1"]) = 3
    /\ transactions["u1"][2].balanceBefore = transactions["u1"][1].balanceAfter
    /\ transactions["u1"][2].balanceBefore # transactions["u1"][2].balanceAfter
    /\ wallets["u1"].balance = SumAmounts(transactions["u1"])
    /\ \E p \in Procs : Done(p) /\ procs[p].res = "INSUFFICIENT_FUNDS"

\* The markets of the event for which determineMarketResults gives results.
MarketsWithResults(homeScore, awayScore) ==
    {DefaultMarkets[i].id : i \in
        {j \in 1..Len(DefaultMarkets) :
            determineMarketResults(DefaultMarkets[j], homeScore, awayScore) # <<>>}}

\* The markets settleMarket was invoked for.
MarketsInvoked == {settlements[id].marketId : id \in SettlementIds} \ {"none"}

\* C33: settleEvent marks the event finished only after settleMarket was
\* invoked for every market of the event that has results, and a failure
\* inside one market's settlement does not keep the remaining markets from
\* being settled: a settleEvent that has ended, with or without an error, and
\* had a market settled has had settleMarket invoked for all of them.
EventSettlesEveryMarket ==
    /\ [](\A p \in Procs :
            (procs[p].op = "settleEvent" /\ procs[p].pc = "event_status") =>
                MarketsWithResults(procs[p].homeScore, procs[p].awayScore)
                    \subseteq MarketsInvoked)
    /\ [](\A p \in Procs :
            (Done(p) /\ procs[p].op = "settleEvent" /\ MarketsInvoked # {}) =>
                {"m1", "m2"} \subseteq MarketsInvoked)
    /\ [][\A e \in EventIds :
             (events[e] # "finished" /\ events'[e] = "finished") =>
                 \E p \in Procs :
                     /\ procs[p].pc = "event_status" /\ procs[p].eventId = e
                     /\ procs'[p].pc = "done"]_vars

\* The statuses the bet selection of the data model can have.
BetSelectionStatuses == {"pending", "won", "lost", "void", "push"}

\* C34: the status of every selection of every bet is one of pending, won,
\* lost, void, push in every state, whatever results (winner, loser, void,
\* push) are delivered for the selections.
SelectionStatusInDomain ==
    \A b \in BetIds : \A j \in 1..Len(bets[b].selections) :
        bets[b].selections[j].status \in BetSelectionStatuses

\* Bet b has a pending selection and none that is a loser.
PendingNoLoser(bet) ==
    /\ CountStatus(bet, {"pending"}) > 0
    /\ CountStatus(bet, {"lost", "loser"}) = 0

\* C35: while an open bet has pending selections and no loser among its
\* selections, the turn of handleSelectionSettled that writes a result on it
\* leaves the bet open and calls neither bet.settle nor wallet.credit: the
\* handler goes on with the next bet of its list or returns.
PendingBetStaysOpen ==
    [][\A p \in Procs :
          (procs[p].pc = "cascade_bet" /\ procs'[p] # procs[p]
             /\ bets[Head(procs[p].queue)].status = "open"
             /\ PendingNoLoser(bets'[Head(procs[p].queue)])) =>
              /\ bets'[Head(procs[p].queue)].status = "open"
              /\ procs'[p].pc \in {"cascade_bet", "done"}
              /\ procs'[p].queue = Tail(procs[p].queue)
              /\ wallets' = wallets /\ transactions' = transactions]_vars

\* The cascade of a winner has ended on an accumulator whose other selection
\* is pending: the bet is open and nothing was credited for it.
WinnerAwaitsOtherLeg ==
    \E b \in BetIds, p \in Procs :
        /\ Len(bets[b].selections) = 2
        /\ BetStatusCount(b, {"winner"}) = 1 /\ BetStatusCount(b, {"pending"}) = 1
        /\ bets[b].status = "open" /\ CreditCalls(b) = 0
        /\ Done(p) /\ procs[p].op = "cascade" /\ procs[p].res = "ok"

\* C36: a bet is cashed out at most once, also by concurrent Cashout calls: at
\* most one wallet.credit is ever made for it, and a Cashout that returns has
\* found the bet open and made that one credit.
CashoutCreditsOnce ==
    \A b \in BetIds :
        /\ CreditCalls(b) <= 1
        /\ Cardinality({p \in Procs : /\ Done(p) /\ procs[p].op = "cashout"
                                      /\ procs[p].res = "ok"
                                      /\ procs[p].betId = b}) <= 1

\* The bet_win credits made for bet b: recorded, applied, or about to run.
WinCredits(b) ==
    Cardinality({i \in 1..Len(transactions["u1"]) :
                    /\ transactions["u1"][i].referenceId = b
                    /\ transactions["u1"][i].type = "bet_win"})
    + Cardinality({p \in Procs : /\ procs[p].handler = "credit"
                                 /\ procs[p].pc \in {"credit_wallet", "saveTransaction"}
                                 /\ procs[p].referenceId = b
                                 /\ procs[p].referenceType = "bet_win"})

\* C37: when the wallet.credit of a Settle fails the bet is as it was before
\* the call, open with no settledAmount, so that a retried Settle can pay it;
\* a bet with status won has exactly one bet_win credit made for it.
FailedCreditLeavesOpen ==
    /\ [](\A b \in BetIds : bets[b].status = "won" => WinCredits(b) = 1)
    /\ [](\A p \in Procs :
            (Done(p) /\ procs[p].op = "settle"
               /\ procs[p].res \in {"REQUEST_REJECTED", "VALIDATION_ERROR"}) =>
                /\ bets[procs[p].betId].status = "open"
                /\ bets[procs[p].betId].settledAmount = 0)

\* The bet_refund credits made for bet b: recorded, applied, or about to run.
RefundCredits(b) ==
    Cardinality({i \in 1..Len(transactions["u1"]) :
                    /\ transactions["u1"][i].referenceId = b
                    /\ transactions["u1"][i].type = "bet_refund"
                    /\ transactions["u1"][i].amount = bets[b].stake})
    + Cardinality({p \in Procs : /\ procs[p].handler = "credit"
                                 /\ procs[p].pc \in {"credit_wallet", "saveTransaction"}
                                 /\ procs[p].referenceId = b
                                 /\ procs[p].referenceType = "bet_refund"
                                 /\ procs[p].amount = bets[b].stake})

\* C38: a bet of status void has had its stake, and nothing else, credited
\* back as bet_refund, whichever result (won, lost, void, partial) the Settle
\* calls were made with.
VoidBetRefunded ==
    \A b \in BetIds :
        bets[b].status = "void" => (RefundCredits(b) = 1 /\ CreditCalls(b) = 1)

\* The amounts of the active locks of user u.
ActiveLocksOf(u) ==
    SumOver([l \in LockIds |-> locks[l].amount],
            {l \in LockIds : locks[l].status = "active" /\ locks[l].userId = u})

\* C39: after any sequence of Lock, Unlock and Debit calls the lockedBalance
\* of every wallet is the sum of the amounts of its active locks, also when a
\* Debit named a lock of another wallet or an amount other than the lock's.
LockedBalanceIsActiveLocks ==
    AllReturned => \A u \in Users : wallets[u].lockedBalance = ActiveLocksOf(u)

\* C40: an event the processor has removed from the queue after settling its
\* market is not queued again while no new result arrives: the status update
\* made by settleEvent itself does not queue the event once more.
QueueStaysEmpty ==
    [][\A e \in EventIds :
          (/\ events[e] = "finished"
           /\ ~pendingSettlements[e].queued
           /\ \E i \in SettlementIds :
                 settlements[i].status \in {"completed", "completed_with_errors"})
          => ~pendingSettlements'[e].queued]_vars

====
